---- MODULE Spec2Model ----
(***************************************************************************)
(* CAPES Research Exporter: the resumable pagination / extraction / export *)
(* pipeline of src/content.js (ExportController, StateManager,             *)
(* PageNavigator, FormatConverter) as a state machine.                     *)
(*                                                                         *)
(* One content-script instance lives per page load.  sessionStorage and    *)
(* the files already downloaded survive a page load; everything else       *)
(* (controller state, timers, overlay) dies with the page.                 *)
(***************************************************************************)
EXTENDS Integers, Sequences, FiniteSets, TLC

\* ------------------------------------------------------------------ bounds
\* length of the texts given to escapeBibTeX
MaxEscLen == 3
\* length of the texts given as year of an article
MaxYearLen == 4
\* length of the sequences of articles given to the converters
MaxRecords == 2
\* index of the last page of the result listing
MaxPage == 2
\* largest number of articles the extractor finds on one page
MaxPerPage == 2
\* export messages sent to the content script during one behaviour
MaxStarts == 2
\* page reloads by the user during one behaviour
MaxReloads == 1
\* exports begun in the popup during one behaviour
MaxExports == 2
\* calls of performInitialValidation that wait at one time
MaxValidations == 2

\* --------------------------------------------------------------- constants
\* src/content.js:15 and :18, and the literal of sleep(500) in resumeExport
NAV_DELAY == 1200
PROCESSING_TIMEOUT == 30000
RESUME_DELAY == 500
HIDE_DELAY == 2000
ERROR_HIDE_DELAY == 4000

\* JavaScript's null / undefined (a record, so that it compares with records)
null == [tag |-> "null"]

\* ------------------------------------------------------------------ strings
CR == "\r"
LF == "\n"
CRLF == CR \o LF

Digits == {"0", "1", "2", "3", "4", "5", "6", "7", "8", "9"}

CharAt(s, i) == SubSeq(s, i, i)

IsDigit(c) == c \in Digits

\* Array.prototype.join
RECURSIVE join(_, _)
join(parts, sep) ==
  IF Len(parts) = 0 THEN ""
  ELSE IF Len(parts) = 1 THEN parts[1]
  ELSE parts[1] \o sep \o join(Tail(parts), sep)

\* str.match(/(\d{4})/): the first run of four digits, "" when there is none
RECURSIVE matchYearFrom(_, _)
matchYearFrom(s, i) ==
  IF i + 3 > Len(s) THEN ""
  ELSE IF \A k \in 0..3 : IsDigit(CharAt(s, i + k)) THEN SubSeq(s, i, i + 3)
  ELSE matchYearFrom(s, i + 1)

\* (mutant) a match that takes the whole text for the year
matchYear_whole(s) == s

matchYear(s) == matchYearFrom(s, 1)

\* number of (possibly overlapping) occurrences of pat in s
Count(s, pat) ==
  Cardinality({i \in 1..(Len(s) - Len(pat) + 1) : SubSeq(s, i, i + Len(pat) - 1) = pat})

\* ------------------------------------------------------- the result listing
\* What ArticleExtractor.extractFromPage yields is an input of the pipeline:
\* article i of page p.  Page 1's first article is the record of the
\* end-to-end example.
Titles == <<"A Study of X", "Costs & Benefits {2nd}", "Notes on 100% #1">>
Years == <<"2020", "n.d.", "c2019a">>
Journals == <<"Journal Y", "", "Revista $">>
Kinds == <<"Artigo", "Carta", "CapÃ­tulo de livro">>

Art(p, i) ==
  LET k == ((p + i) % 3) + 1
      j == ((p + i + 1) % 3) + 1 IN
  [ id |-> "1" \o ToString(p + 1) \o ToString(i + 2),
    title |-> Titles[j],
    authors |-> IF j = 2 THEN << >> ELSE IF j = 1 THEN <<"Smith, J.">> ELSE <<"Silva, A.", "Lee, B.">>,
    journal |-> Journals[j],
    year |-> Years[j],
    documentType |-> Kinds[j],
    isOpenAccess |-> (k # 1),
    isPeerReviewed |-> (k = 2) ]

PageArticles(p, n) == [i \in 1..n |-> Art(p, i)]

\* The pagination signals of one page: the enabled "next" button and the
\* text of .pagination-information, held as what the two patterns of
\* PageNavigator find in it:
\*   kind, from, to, total   the match of /(\d+)-(\d+)\s*de\s*(\d+)/ (its
\*                           dash is the en dash): "range" with the three
\*                           numbers, "text" when the text has no such match,
\*                           "absent" when the page has no such element
\*   de                      the first match of /de\s*(\d+)/ and its number
De(n) == [match |-> TRUE, n |-> n]

NoInfo ==
  [kind |-> "absent", from |-> 0, to |-> 0, total |-> 0, de |-> [match |-> FALSE, n |-> 0]]

\* a text without a range: "Nenhum resultado" is OtherInfo, "1-10 de 30" (with
\* a hyphen) and "Pagina 2 de 30" are Text(De(30))
Text(de) == [kind |-> "text", from |-> 0, to |-> 0, total |-> 0, de |-> de]
OtherInfo == Text([match |-> FALSE, n |-> 0])

\* the text "a-b de t" (with the en dash)
Range(a, b, t) == [kind |-> "range", from |-> a, to |-> b, total |-> t, de |-> De(t)]

\* Two ways a page tells that more pages follow: an enabled next button
\* (beside a range text that looks exhausted) on the odd pages, the range
\* text alone on the even ones.  The last page has no enabled button and an
\* exhausted range text.
Signals(p) ==
  IF p = MaxPage THEN [nextButton |-> FALSE, pageInfo |-> Range(21, 30, 30)]
  ELSE IF p % 2 = 1 THEN [nextButton |-> TRUE, pageInfo |-> Range(1, 10, 10)]
  ELSE [nextButton |-> FALSE, pageInfo |-> Range(11, 20, 30)]

Pages == 1..MaxPage

\* a listing: for every page the number of its articles and its pagination
\* signals; only the last page reports no further page
Listings ==
  { [p \in Pages |-> [n |-> size[p], sig |-> Signals(p)]] :
      size \in [Pages -> 0..MaxPerPage] }

\* ---------------------------------------------------------- FormatConverter
\* What a template literal makes of the properties an object literal
\* inherits from Object.prototype: its functions and, for __proto__, the
\* prototype itself; "" for a name that is none of them.
ObjectPrototype(key) ==
  CASE key = "constructor" -> "function Object() { [native code] }"
    [] key \in {"hasOwnProperty", "isPrototypeOf", "propertyIsEnumerable",
                "toLocaleString", "toString", "valueOf", "__defineGetter__",
                "__defineSetter__", "__lookupGetter__", "__lookupSetter__"}
       -> "function " \o key \o "() { [native code] }"
    [] key = "__proto__" -> "[object Object]"
    [] OTHER -> ""

\* The type maps as lookups: the value of an own key, what Object.prototype
\* has under the key, or "" (undefined) for a key found in neither.
RIS_TYPE_MAP(documentType) ==
  CASE documentType = "Artigo" -> "JOUR"
    [] documentType = "CapÃ­tulo de livro" -> "CHAP"
    [] documentType = "Carta" -> "NEWS"
    [] documentType = "Errata" -> "JOUR"
    [] documentType = "RevisÃ£o" -> "JOUR"
    [] OTHER -> ObjectPrototype(documentType)

BIBTEX_TYPE_MAP(documentType) ==
  CASE documentType = "Artigo" -> "article"
    [] documentType = "CapÃ­tulo de livro" -> "inbook"
    [] documentType = "Carta" -> "article"
    [] documentType = "Errata" -> "article"
    [] documentType = "RevisÃ£o" -> "article"
    [] OTHER -> ObjectPrototype(documentType)

buildNotesArray(article) ==
  (IF article.isOpenAccess THEN <<"Open Access">> ELSE << >>)
  \o (IF article.isPeerReviewed THEN <<"Peer Reviewed">> ELSE << >>)
  \o (IF article.id # "" THEN <<"CAPES ID: " \o article.id>> ELSE << >>)

extractYear(yearStr) ==
  IF yearStr = "" THEN "unknown"
  ELSE IF matchYear(yearStr) # "" THEN matchYear(yearStr) ELSE "unknown"

articleToRIS(article) ==
  LET risType == IF RIS_TYPE_MAP(article.documentType) # ""
                 THEN RIS_TYPE_MAP(article.documentType) ELSE "JOUR"
      notes == buildNotesArray(article)
      lines ==
        <<"TY  - " \o risType>>
        \o (IF article.title # "" THEN <<"TI  - " \o article.title>> ELSE << >>)
        \o [a \in 1..Len(article.authors) |-> "AU  - " \o article.authors[a]]
        \o (IF article.year # "" /\ matchYear(article.year) # ""
            THEN <<"PY  - " \o matchYear(article.year)>> ELSE << >>)
        \o (IF article.journal # ""
            THEN <<"T2  - " \o article.journal, "JF  - " \o article.journal>> ELSE << >>)
        \o (IF Len(notes) > 0 THEN <<"N1  - " \o join(notes, "; ")>> ELSE << >>)
        \o <<"ER  - ">>
  IN join(lines, CRLF)

\* articleToRIS of the articles of the listing, computed once
Catalogue == {Art(p, i) : p \in Pages, i \in 1..MaxPerPage}
CatalogueRIS == [a \in Catalogue |-> articleToRIS(a)]

mapToRIS(article) ==
  IF article \in Catalogue THEN CatalogueRIS[article] ELSE articleToRIS(article)

\* (mutant) toRIS that puts no blank line between the blocks
toRIS_noBlankLine(articles) ==
  join([i \in 1..Len(articles) |-> mapToRIS(articles[i])], LF) \o LF

toRIS(articles) ==
  join([i \in 1..Len(articles) |-> mapToRIS(articles[i])], LF \o LF) \o LF

\* str.replace(/c/g, rep) for a one-character pattern c
RECURSIVE indexFrom(_, _, _)
indexFrom(str, c, i) ==
  IF i > Len(str) THEN 0
  ELSE IF CharAt(str, i) = c THEN i
  ELSE indexFrom(str, c, i + 1)

RECURSIVE replaceFrom(_, _, _, _)
replaceFrom(str, i, c, rep) ==
  LET j == indexFrom(str, c, i) IN
  IF j = 0 THEN SubSeq(str, i, Len(str))
  ELSE SubSeq(str, i, j - 1) \o rep \o replaceFrom(str, j + 1, c, rep)

replaceAll(str, c, rep) == replaceFrom(str, 1, c, rep)

\* (mutant) escapeBibTeX that replaces the backslash last
escapeBibTeX_backslashLast(str) ==
  LET s1 == replaceAll(str, "{", "\\{")
      s2 == replaceAll(s1, "}", "\\}")
      s3 == replaceAll(s2, "$", "\\$")
      s4 == replaceAll(s3, "&", "\\&")
      s5 == replaceAll(s4, "%", "\\%")
      s6 == replaceAll(s5, "#", "\\#")
  IN replaceAll(s6, "\\", "\\\\")

escapeBibTeX(str) ==
  LET s1 == replaceAll(str, "\\", "\\\\")
      s2 == replaceAll(s1, "{", "\\{")
      s3 == replaceAll(s2, "}", "\\}")
      s4 == replaceAll(s3, "$", "\\$")
      s5 == replaceAll(s4, "&", "\\&")
      s6 == replaceAll(s5, "%", "\\%")
  IN replaceAll(s6, "#", "\\#")

\* A text is held as the bytes of its UTF-8 form, one character per byte:
\* a character up to U+007F takes one place, a character beyond it two,
\* three or four places, a lead byte followed by continuation bytes (the
\* two halves of a surrogate pair are the four bytes of their character).
\* The texts a program handles are well formed; a byte that does not begin
\* a well-formed character is taken as a character of its own.
CharsOf(str) == {CharAt(str, k) : k \in 1..Len(str)}

Utf8Bytes ==
  [ continuation |->
      {"", "", "", "", "", "", "", "", "", "", "", "", "", "", "", "",
       "", "", "", "", "", "", "", "", "", "", "", "", "", "", "", "",
       " ", "¡", "¢", "£", "¤", "¥", "¦", "§", "¨", "©", "ª", "«", "¬", "­", "®", "¯",
       "°", "±", "²", "³", "´", "µ", "¶", "·", "¸", "¹", "º", "»", "¼", "½", "¾", "¿"},
    lead2 |->
      {"Â", "Ã", "Ä", "Å", "Æ", "Ç", "È", "É", "Ê", "Ë", "Ì", "Í", "Î", "Ï", "Ð", "Ñ",
       "Ò", "Ó", "Ô", "Õ", "Ö", "×", "Ø", "Ù", "Ú", "Û", "Ü", "Ý", "Þ", "ß"},
    lead3 |->
      {"à", "á", "â", "ã", "ä", "å", "æ", "ç", "è", "é", "ê", "ë", "ì", "í", "î", "ï"},
    lead4 |->
      {"ð", "ñ", "ò", "ó", "ô"} ]

\* the number of places the character at place i of str takes
charLen(str, i) ==
  LET follow(n) ==
        /\ i + n <= Len(str)
        /\ \A k \in 1..n : CharAt(str, i + k) \in Utf8Bytes.continuation
  IN IF CharAt(str, i) \in Utf8Bytes.lead2 /\ follow(1) THEN 2
     ELSE IF CharAt(str, i) \in Utf8Bytes.lead3 /\ follow(2) THEN 3
     ELSE IF CharAt(str, i) \in Utf8Bytes.lead4 /\ follow(3) THEN 4
     ELSE 1

\* the characters \s matches: tab, line feed, vertical tab, form feed,
\* carriage return, space, U+00A0, U+1680, U+2000 to U+200A, U+2028, U+2029,
\* U+202F, U+205F, U+3000 and U+FEFF
WhiteSpace ==
  {"\t", LF, "", "\f", CR, " ", "Â "}
  \cup
  {"á", "â", "â", "â", "â", "â", "â", "â", "â", "â", "â", "â",
   "â¨", "â©", "â¯", "â", "ã", "ï»¿"}

IsSpace(c) == c \in WhiteSpace

\* the characters /[a-z0-9\s]/ matches
IsKeyChar(c) == IsDigit(c) \/ IsSpace(c) \/ c \in CharsOf("abcdefghijklmnopqrstuvwxyz")

\* What title.toLowerCase().replace(/[^a-z0-9\s]/g, '') leaves of the
\* character c of the title.  toLowerCase turns A-Z into a-z, U+0130 (capital
\* I with dot above) into "i" followed by U+0307, and U+212A (the Kelvin
\* sign) into "k"; the lower case of no other character holds a character of
\* a-z, 0-9 or \s, and no character of a-z, 0-9 or \s is changed.  The
\* replace then removes what is not a-z, 0-9 or white space: of another
\* character nothing is left, whether toLowerCase changed it or not.
cleanChar(c) ==
  LET upper == "ABCDEFGHIJKLMNOPQRSTUVWXYZ"
      lower == "abcdefghijklmnopqrstuvwxyz"
      at == {k \in 1..Len(upper) : CharAt(upper, k) = c}
  IN IF at # {} THEN CharAt(lower, CHOOSE k \in at : TRUE)
     ELSE IF c = "Ä°" THEN "i"
     ELSE IF c = "âª" THEN "k"
     ELSE IF IsKeyChar(c) THEN c
     ELSE ""

\* title.toLowerCase().replace(/[^a-z0-9\s]/g, '') from place i of the title on
RECURSIVE cleanFrom(_, _)
cleanFrom(str, i) ==
  IF i > Len(str) THEN ""
  ELSE cleanChar(SubSeq(str, i, i + charLen(str, i) - 1))
       \o cleanFrom(str, i + charLen(str, i))

\* title.toLowerCase().replace(/[^a-z0-9\s]/g, '')
cleanTitle(str) == cleanFrom(str, 1)

\* the first place from i on that holds no white space
RECURSIVE skipSpace(_, _)
skipSpace(str, i) ==
  IF i > Len(str) THEN i
  ELSE IF IsSpace(SubSeq(str, i, i + charLen(str, i) - 1))
       THEN skipSpace(str, i + charLen(str, i))
       ELSE i

\* str.split(/\s+/): the pieces between maximal runs of white space
RECURSIVE splitSpace(_, _, _)
splitSpace(str, i, cur) ==
  IF i > Len(str) THEN <<cur>>
  ELSE LET c == SubSeq(str, i, i + charLen(str, i) - 1) IN
       IF IsSpace(c)
       THEN <<cur>> \o splitSpace(str, skipSpace(str, i), "")
       ELSE splitSpace(str, i + charLen(str, i), cur \o c)

RECURSIVE filterLong(_)
filterLong(words) ==
  IF Len(words) = 0 THEN << >>
  ELSE (IF Len(words[1]) > 3 THEN <<words[1]>> ELSE << >>) \o filterLong(Tail(words))

generateCitationKey(article) ==
  LET words == filterLong(splitSpace(cleanTitle(article.title), 1, ""))
      titleWords == SubSeq(words, 1, IF Len(words) < 3 THEN Len(words) ELSE 3)
  IN join(titleWords, "") \o extractYear(article.year)

articleToBibTeX(article) ==
  LET citationKey == generateCitationKey(article)
      entryType == IF BIBTEX_TYPE_MAP(article.documentType) # ""
                   THEN BIBTEX_TYPE_MAP(article.documentType) ELSE "article"
      year == extractYear(article.year)
      notes == buildNotesArray(article)
      lines ==
        <<"@" \o entryType \o "{" \o citationKey \o ",">>
        \o <<"  title = {" \o escapeBibTeX(article.title) \o "},">>
        \o (IF Len(article.authors) > 0
            THEN <<"  author = {" \o escapeBibTeX(join(article.authors, " and ")) \o "},">>
            ELSE << >>)
        \o (IF article.journal # ""
            THEN <<"  journal = {" \o escapeBibTeX(article.journal) \o "},">> ELSE << >>)
        \o (IF year # "unknown" THEN <<"  year = {" \o year \o "},">> ELSE << >>)
        \o (IF Len(notes) > 0
            THEN <<"  note = {" \o escapeBibTeX(join(notes, "; ")) \o "},">> ELSE << >>)
        \o <<"}">>
  IN join(lines, LF)

RECURSIVE withTitle(_)
withTitle(articles) ==
  IF Len(articles) = 0 THEN << >>
  ELSE (IF articles[1].title # "" THEN <<articles[1]>> ELSE << >>) \o withTitle(Tail(articles))

\* articleToBibTeX of the articles of the listing, computed once
CatalogueBibTeX == [a \in Catalogue |-> articleToBibTeX(a)]

mapToBibTeX(article) ==
  IF article \in Catalogue THEN CatalogueBibTeX[article] ELSE articleToBibTeX(article)

\* (mutant) toBibTeX that keeps the articles without title
toBibTeX_keepsUntitled(articles) ==
  join([i \in 1..Len(articles) |-> mapToBibTeX(articles[i])], LF \o LF) \o LF

toBibTeX(articles) ==
  LET kept == withTitle(articles) IN
  join([i \in 1..Len(kept) |-> mapToBibTeX(kept[i])], LF \o LF) \o LF


\* ------------------------------------------------------------ PageNavigator
\* parseInt(params.get('page'), 10) || 1; the page parameter of the address
\* is a number, 0 standing for an absent, non-numeric or zero parameter
getCurrentPage(location) == IF location = 0 THEN 1 ELSE location

\* A JavaScript value that is a boolean or null is a record, so that the two
\* compare: the boolean b is boolean(b), and truthy tells what `if` and `&&`
\* make of the value.
boolean(b) == [tag |-> "boolean", value |-> b]

truthy(v) == v.tag = "boolean" /\ v.value

\* hasNextPage: `match && ...` is null when the text has no range
hasNextPage(sig) ==
  IF sig.nextButton THEN boolean(TRUE)
  ELSE IF sig.pageInfo.kind # "absent"
       THEN (IF sig.pageInfo.kind = "range"
             THEN boolean(sig.pageInfo.to < sig.pageInfo.total)
             ELSE null)
       ELSE boolean(FALSE)

getTotalArticlesEstimate(sig) ==
  IF sig.pageInfo.kind # "absent"
  THEN (IF sig.pageInfo.de.match THEN sig.pageInfo.de.n ELSE 0)
  ELSE 0

\* ------------------------------------------------------------- StateManager
\* A JavaScript Set keeps insertion order: a sequence without repetitions.
setHas(set, x) == \E i \in 1..Len(set) : set[i] = x

setAdd(set, x) == IF setHas(set, x) THEN set ELSE Append(set, x)

arrayFrom(set) == set

RECURSIVE newSet(_)
newSet(array) ==
  IF Len(array) = 0 THEN << >>
  ELSE LET front == newSet(SubSeq(array, 1, Len(array) - 1)) IN
       setAdd(front, array[Len(array)])

\* A Date is its time value in milliseconds; the clock of the model stays
\* within the first day of 1970.  InvalidDate is the time value of an Invalid
\* Date (NaN).
InvalidDate == -1

\* what Date.prototype.toISOString throws on an Invalid Date
RangeError == [tag |-> "throws", name |-> "RangeError", message |-> "Invalid time value"]

\* the decimal digits of n, padded with zeros to `width` characters
RECURSIVE padStart(_, _)
padStart(n, width) ==
  IF width = 0 THEN "" ELSE padStart(n \div 10, width - 1) \o ToString(n % 10)

toISOString(ms) ==
  IF ms = InvalidDate THEN RangeError
  ELSE "1970-01-01T" \o padStart(ms \div 3600000, 2)
       \o ":" \o padStart((ms \div 60000) % 60, 2)
       \o ":" \o padStart((ms \div 1000) % 60, 2)
       \o "." \o padStart(ms % 1000, 3) \o "Z"

\* parseInt of a text of digits
RECURSIVE parseDigits(_)
parseDigits(str) ==
  IF str = "" THEN 0
  ELSE 10 * parseDigits(SubSeq(str, 1, Len(str) - 1))
       + (CHOOSE d \in 0..9 : ToString(d) = CharAt(str, Len(str)))

\* new Date(str): of the texts a Date is read from, the model knows those
\* toISOString writes; any other text gives an Invalid Date
newDate(str) ==
  IF /\ Len(str) = 24
     /\ SubSeq(str, 1, 11) = "1970-01-01T"
     /\ CharAt(str, 14) = ":" /\ CharAt(str, 17) = ":" /\ CharAt(str, 20) = "."
     /\ CharAt(str, 24) = "Z"
     /\ \A i \in {12, 13, 15, 16, 18, 19, 21, 22, 23} : IsDigit(CharAt(str, i))
     /\ parseDigits(SubSeq(str, 12, 13)) < 24
     /\ parseDigits(SubSeq(str, 15, 16)) < 60
     /\ parseDigits(SubSeq(str, 18, 19)) < 60
  THEN 3600000 * parseDigits(SubSeq(str, 12, 13)) + 60000 * parseDigits(SubSeq(str, 15, 16))
       + 1000 * parseDigits(SubSeq(str, 18, 19)) + parseDigits(SubSeq(str, 21, 23))
  ELSE InvalidDate

\* (mutant) save that hands the Set itself to JSON.stringify, which writes {}
serialize_rawSet(state) ==
  [ format |-> state.format,
    articles |-> state.articles,
    processedPages |-> << >>,
    totalArticles |-> state.totalArticles,
    startTime |-> toISOString(state.startTime) ]

\* the object StateManager.save hands to JSON.stringify; building it throws
\* when the start time is an Invalid Date
serialize(state) ==
  IF state.startTime = InvalidDate THEN RangeError
  ELSE [ format |-> state.format,
         articles |-> state.articles,
         processedPages |-> arrayFrom(state.processedPages),
         totalArticles |-> state.totalArticles,
         startTime |-> toISOString(state.startTime) ]

\* (mutant) load that takes the time of loading as the start time of the run
deserialize_restamped(parsed) ==
  [ format |-> parsed.format,
    articles |-> parsed.articles,
    processedPages |-> newSet(parsed.processedPages),
    totalArticles |-> parsed.totalArticles,
    startTime |-> 0 ]
deserialize(parsed) ==
  [ format |-> parsed.format,
    articles |-> parsed.articles,
    processedPages |-> newSet(parsed.processedPages),
    totalArticles |-> parsed.totalArticles,
    startTime |-> newDate(parsed.startTime) ]

\* The machine m: what one handler reads and writes.
\*   storage            the sessionStorage slot STORAGE_KEY (null when empty)
\*   state              exportController.state
\*   processingTimeout  whether the watchdog timer is armed
\*   sleeps             pending sleep() continuations of this page
\*   location           the page parameter of the address
\*   navTarget          the page that location.href was set to while this page
\*                      is not yet gone (0: no navigation under way)
\*   status             the message handed to the ProgressUI last, whether the
\*                      ProgressUI showed it or not
\*   overlay            progressUI.overlay: null, or the element with the text
\*                      of its .export-status and whether it is in the document
\*   hides              pending timers of ProgressUI.hide
\*   downloads          the files handed to FileDownloader.download
\*   ev                 the calls made by the handler that ran last
log(m, e) == [m EXCEPT !.ev = Append(@, e)]

\* (mutant) save that lets the error of setItem reach handleError
save_rethrows(m, room) ==
  IF Len(m.state.articles) <= room THEN log([m EXCEPT !.storage = serialize(m.state)], "save")
  ELSE LET m1 == log(m, "save:failed") IN
       log([m1 EXCEPT !.storage = null, !.status = "failed:QuotaExceededError"],
           "status:failed:QuotaExceededError")

\* StateManager.save: toISOString throws on an Invalid Date, and setItem
\* throws when the serialized state has more than `room` articles; either
\* error is caught and the slot is left alone
save(m, room) ==
  IF m.state.startTime = InvalidDate THEN log(m, "save:failed")
  ELSE IF Len(m.state.articles) <= room
       THEN log([m EXCEPT !.storage = serialize(m.state)], "save")
       ELSE log(m, "save:failed")

\* What the slot may hold that StateManager.save did not write.  BadText is a
\* text JSON.parse rejects; JsonNull is the text "null".  A raw object is the
\* JSON text of a checkpoint `base` in which each field is kept ("ok"), left
\* out ("undefined") or replaced by the number 42 ("number").
Undefined == [tag |-> "undefined"]
Number42 == [tag |-> "number"]
BadText == [tag |-> "text"]
JsonNull == [tag |-> "jsonnull"]
FieldNames == {"format", "articles", "processedPages", "totalArticles", "startTime"}
FieldKinds == {"ok", "undefined", "number"}

RawObject(base, shape) == [tag |-> "object", base |-> base, shape |-> shape]

IsRaw(storage) == "tag" \in DOMAIN storage

\* the value JSON.parse yields for one field of a raw object
rawField(raw, name) ==
  IF raw.shape[name] = "ok" THEN raw.base[name]
  ELSE IF raw.shape[name] = "undefined" THEN Undefined
  ELSE Number42

\* StateManager.load on a raw slot: whether the try block throws.  JSON.parse
\* throws on BadText, reading a property of null throws, and new Set throws on
\* a value that is not iterable; new Set(undefined) and new Date never throw.
loadThrows(storage) ==
  /\ storage # null
  /\ IsRaw(storage)
  /\ \/ storage.tag = "text"
     \/ storage.tag = "jsonnull"
     \/ storage.tag = "object" /\ storage.shape["processedPages"] = "number"

\* the object the try block of StateManager.load builds from a raw object
deserializeRaw(raw) ==
  [ format |-> rawField(raw, "format"),
    articles |-> rawField(raw, "articles"),
    processedPages |-> IF raw.shape["processedPages"] = "ok"
                       THEN newSet(raw.base["processedPages"]) ELSE << >>,
    totalArticles |-> rawField(raw, "totalArticles"),
    startTime |-> IF raw.shape["startTime"] = "ok" THEN newDate(raw.base["startTime"])
                  ELSE IF raw.shape["startTime"] = "undefined" THEN InvalidDate
                  ELSE 42 ]

\* StateManager.load: the value returned
load(storage) ==
  IF storage = null THEN null
  ELSE IF IsRaw(storage)
       THEN (IF loadThrows(storage) THEN null ELSE deserializeRaw(storage))
       ELSE deserialize(storage)

\* StateManager.clear
clear(m) == log([m EXCEPT !.storage = null], "clear")

\* StateManager.load: its catch block, which clears the slot
catchLoad(m) == IF loadThrows(m.storage) THEN clear(m) ELSE m

\* -------------------------------------------------------------- ProgressUI
\* a caller hands `message` to the ProgressUI
handed(m, message) == log([m EXCEPT !.status = message], "status:" \o message)

\* ProgressUI.updateStatus: nothing is written without an overlay
updateStatus(m, message) ==
  IF m.overlay = null THEN handed(m, message)
  ELSE [handed(m, message) EXCEPT !.overlay.text = message]

\* ProgressUI.show: nothing is made or written when there is an overlay
show(m, message) ==
  IF m.overlay # null THEN handed(m, message)
  ELSE updateStatus([m EXCEPT !.overlay = [text |-> "", attached |-> TRUE]], message)

\* ProgressUI.hide: arms a timer when there is an overlay.  The timers differ
\* in their delay only; each does the same when it fires.
hide(m, delay) == IF m.overlay = null THEN m ELSE [m EXCEPT !.hides = @ + 1]

\* the callback of the timer of ProgressUI.hide
removeOverlay(m) == IF m.overlay # null THEN [m EXCEPT !.overlay = null] ELSE m

\* FileDownloader.generateFilename: the extension
generateFilename(format) == IF format = "ris" THEN "ris" ELSE "bib"

\* --------------------------------------------------------- ExportController
clearProcessingTimeout(m) ==
  IF m.processingTimeout
  THEN log([m EXCEPT !.processingTimeout = FALSE], "clearTimeout")
  ELSE m

\* (mutant) setProcessingTimeout that arms a timer beside the one armed
setProcessingTimeout_noClear(m) ==
  log([m EXCEPT !.processingTimeout = TRUE], "setTimeout")
setProcessingTimeout(m) ==
  log([clearProcessingTimeout(m) EXCEPT !.processingTimeout = TRUE], "setTimeout")

\* (mutant) handleError that leaves the checkpoint in the slot
handleError_keepsCheckpoint(m, message) ==
  hide(updateStatus(clearProcessingTimeout(m), "failed:" \o message), ERROR_HIDE_DELAY)

handleError(m, message) ==
  clear(hide(updateStatus(clearProcessingTimeout(m), "failed:" \o message), ERROR_HIDE_DELAY))

\* the overlay found in the document is removed from it; progressUI.overlay
\* keeps the element
clearExistingExport(m) ==
  LET m1 == clear(clearProcessingTimeout(m)) IN
  IF m1.overlay # null /\ m1.overlay.attached
  THEN [m1 EXCEPT !.overlay.attached = FALSE]
  ELSE m1

\* (mutant) initializeState that keeps what the controller had collected
initializeState_keepsArticles(m, format, sig, now) ==
  [m EXCEPT !.state = [ format |-> format,
                        articles |-> IF m.state = null THEN << >> ELSE m.state.articles,
                        processedPages |-> IF m.state = null THEN << >> ELSE m.state.processedPages,
                        totalArticles |-> getTotalArticlesEstimate(sig),
                        startTime |-> now ]]

initializeState(m, format, sig, now) ==
  [m EXCEPT !.state = [ format |-> format,
                        articles |-> << >>,
                        processedPages |-> << >>,
                        totalArticles |-> getTotalArticlesEstimate(sig),
                        startTime |-> now ]]

\* (mutant) generateExportContent that stamps the document with the start time
generateExportContent_stamped(state) ==
  (IF state.format = "ris" THEN toRIS(state.articles) ELSE toBibTeX(state.articles))
  \o ToString(state.startTime)

generateExportContent(state) ==
  IF state.format = "ris" THEN toRIS(state.articles) ELSE toBibTeX(state.articles)

\* (mutant) shouldContinueToNextPage that does not look at the processed pages
shouldContinueToNextPage_ignoresVisited(state, sig, currentPage) == hasNextPage(sig)
\* `a && b` is a when a is not truthy
shouldContinueToNextPage(state, sig, currentPage) ==
  LET nextPage == currentPage + 1 IN
  IF truthy(hasNextPage(sig))
  THEN boolean(~setHas(state.processedPages, nextPage))
  ELSE hasNextPage(sig)

\* (mutant) navigateToNextPage that does not wait before it navigates
navigateToNextPage_noDelay(m) ==
  log([updateStatus(m, "navigating") EXCEPT !.navTarget = getCurrentPage(m.location) + 1],
      "navigate")

\* navigateToNextPage up to its await sleep(NAV_DELAY)
navigateToNextPage(m) ==
  [updateStatus(m, "navigating") EXCEPT !.sleeps.nav = @ + 1]

\* (mutant) goToNextPage that sets the page parameter to the current page
goToNextPage_samePage(m) ==
  log([m EXCEPT !.navTarget = getCurrentPage(m.location)], "navigate")

\* PageNavigator.goToNextPage, the rest of navigateToNextPage
goToNextPage(m) ==
  LET nextPage == getCurrentPage(m.location) + 1 IN
  log([m EXCEPT !.navTarget = nextPage], "navigate")

\* (mutant) completeExport that does not look whether the run has articles
completeExport_downloadsEmpty(m) ==
  LET m1 == clearProcessingTimeout(m)
      m2 == updateStatus(m1, "generating")
      file == [ content |-> generateExportContent(m2.state),
                ext |-> generateFilename(m2.state.format),
                run |-> m2.state.startTime ]
      m3 == log([m2 EXCEPT !.downloads = Append(@, file)], "download")
  IN clear(hide(updateStatus(m3, "done"), HIDE_DELAY))
completeExport(m) ==
  LET m1 == clearProcessingTimeout(m) IN
  IF Len(m1.state.articles) = 0
  THEN handleError(m1, "No articles found to export")
  ELSE LET m2 == updateStatus(m1, "generating")
           file == [ content |-> generateExportContent(m2.state),
                     ext |-> generateFilename(m2.state.format),
                     run |-> m2.state.startTime ]
           m3 == log([m2 EXCEPT !.downloads = Append(@, file)], "download")
       IN clear(hide(updateStatus(m3, "done"), HIDE_DELAY))

\* (mutant) processCurrentPage that marks a page without articles as processed
processCurrentPage_marksEmptyPage(m, page, room) ==
  IF m.state = null THEN m
  ELSE LET m1 == log(setProcessingTimeout(m), "extract")
           currentPage == getCurrentPage(m1.location)
           articles == PageArticles(currentPage, page.n)
           m2 == save([m1 EXCEPT !.state.articles = @ \o articles,
                                !.state.processedPages = setAdd(@, currentPage)],
                      room)
           m3 == updateStatus(m2, "collected")
       IN IF truthy(shouldContinueToNextPage(m3.state, page.sig, currentPage))
          THEN navigateToNextPage(m3)
          ELSE completeExport(m3)
processCurrentPage(m, page, room) ==
  IF m.state = null THEN m
  ELSE LET m1 == log(setProcessingTimeout(m), "extract")
           currentPage == getCurrentPage(m1.location)
           articles == PageArticles(currentPage, page.n)
           m2 == IF Len(articles) > 0
                 THEN save([m1 EXCEPT !.state.articles = @ \o articles,
                                      !.state.processedPages = setAdd(@, currentPage)],
                           room)
                 ELSE m1
           m3 == updateStatus(m2, "collected")
       IN IF truthy(shouldContinueToNextPage(m3.state, page.sig, currentPage))
          THEN navigateToNextPage(m3)
          ELSE completeExport(m3)

startExport(m, format, page, now, room) ==
  LET m1 == clearExistingExport(m)
      m2 == initializeState(m1, format, page.sig, now)
      m3 == show(m2, "starting")
  IN processCurrentPage(m3, page, room)

\* resumeExport up to its await sleep(500)
resumeExport(m) ==
  LET m1 == log([catchLoad(m) EXCEPT !.state = load(m.storage)], "load") IN
  IF m1.state = null THEN m1
  ELSE [show(m1, "resuming") EXCEPT !.sleeps.resume = TRUE]

\* the chrome.runtime.onMessage listener for {action: 'export', format}
onMessage(m, format, page, now, room) ==
  IF format # ""
  THEN log(startExport(m, format, page, now, room), "respond")
  ELSE m

\* a new content-script instance on the page at `location`: only the storage
\* slot and the downloaded files are carried over
newInstance(m, location) ==
  [ storage |-> m.storage,
    state |-> null,
    processingTimeout |-> FALSE,
    sleeps |-> [resume |-> FALSE, nav |-> 0],
    location |-> location,
    navTarget |-> 0,
    status |-> "",
    overlay |-> null,
    hides |-> 0,
    downloads |-> m.downloads,
    ev |-> <<"init">> ]

\* (mutant) a content script that does not look for a checkpoint
moduleInit_noResume(m) == m

\* the last statement of the content script
moduleInit(m) == IF load(m.storage) # null THEN resumeExport(m) ELSE catchLoad(m)


\* ------------------------------------------------------------ the popup
\* The popup p (src/popup.js): what its handlers read and write.
\*   disabled       elements.exportBtn.disabled
\*   buttonText     what the button shows: "export" or "spinner"
\*   checked        the value of the checked format radio ("" when none is)
\*   statusMessage  the status line: text, type and whether it is displayed
\*   hides          pending timers of showStatus that hide the status line
\*   requirements   whether the requirements warning is shown
\*   requests       the calls of handleExport that wait: for chrome.tabs.query
\*                  ("query") or for the answer to their message ("send")
\*   resets         pending timers of resetButtonState
\*   sent           the messages handed to chrome.tabs.sendMessage
\*   exports        how many calls of handleExport have begun
\*   cached         whether cacheDOMElements has run: until then every entry
\*                  of `elements` is null
\*   listening      whether attachEventListeners has run
\*   validations    the calls of performInitialValidation that wait for
\*                  chrome.tabs.query: "init" is the one initializePopup
\*                  awaits, "visible" one of the visibilitychange listener
\*   ev             the calls made by the handler that ran last
\* The page of the popup has the button with its .button-text, the status
\* line and the requirements warning that cacheDOMElements looks up.
getSelectedFormat(p) == IF p.checked # "" THEN p.checked ELSE "ris"

showStatus(p, message, type) ==
  IF ~p.cached THEN p
  ELSE log([p EXCEPT !.statusMessage = [text |-> message, type |-> type, display |-> TRUE],
                     !.hides = @ + 1],
           "showStatus:" \o type)

hideStatus(p) == IF p.cached THEN [p EXCEPT !.statusMessage.display = FALSE] ELSE p

showRequirements(p) == IF p.cached THEN [p EXCEPT !.requirements = TRUE] ELSE p

hideRequirements(p) == IF p.cached THEN [p EXCEPT !.requirements = FALSE] ELSE p

setButtonLoading(p, loading) ==
  IF ~p.cached THEN p
  ELSE log([p EXCEPT !.disabled = loading,
                     !.buttonText = IF loading THEN "spinner" ELSE "export"],
           IF loading THEN "setButtonLoading:true" ELSE "setButtonLoading:false")

\* resetButtonState: arms the timer that ends the loading state
resetButtonState(p) == [p EXCEPT !.resets = @ + 1]

\* The active tab as chrome.tabs.query reports it: no tab or no url ("none"),
\* a page of another site ("other"), a page of the CAPES site that is not a
\* search ("capes"), a page of search results ("results").
TabKinds == {"none", "other", "capes", "results"}

\* validateCurrentTab: the popup it leaves and the message of the error it
\* throws ("" when it returns)
validateCurrentTab(p, tab) ==
  IF tab = "none"
  THEN [popup |-> p, error |-> "Unable to access current tab"]
  ELSE IF tab = "other"
  THEN [popup |-> showRequirements(p),
        error |-> "This extension only works on periodicos.capes.gov.br"]
  ELSE IF tab = "capes"
  THEN [popup |-> showRequirements(p),
        error |-> "Please navigate to a search results page first"]
  ELSE [popup |-> hideRequirements(p), error |-> ""]

\* What chrome.tabs.sendMessage yields: the answer {success: true}, no answer
\* (undefined), or a rejection because no content script listens.
Responses == {"success", "undefined", "noReceiver"}

NoReceiverMessage == "Could not establish connection. Receiving end does not exist."

RemoveAt(seq, i) == SubSeq(seq, 1, i - 1) \o SubSeq(seq, i + 1, Len(seq))

\* handleExport up to its first await
handleExport(p, format) ==
  LET p1 == hideStatus(setButtonLoading(p, TRUE)) IN
  [p1 EXCEPT !.requests = Append(@, [format |-> format, at |-> "query"]),
             !.exports = @ + 1]

\* handleExport: its catch block and its finally block, for request i
catchExport(p, i, message) ==
  LET errorMessage ==
        IF Count(message, "receiving end does not exist") > 0
        THEN "Please refresh the CAPES page and try again"
        ELSE IF Count(message, "activeTab") > 0
        THEN "Unable to access the current tab"
        ELSE message
      p1 == showStatus(p, "Error: " \o errorMessage, "error")
  IN resetButtonState([p1 EXCEPT !.requests = RemoveAt(@, i)])

\* handleExport from the answer of chrome.tabs.query to the next await
handleExportAfterQuery(p, i, tab) ==
  LET v == validateCurrentTab(p, tab) IN
  IF v.error # "" THEN catchExport(v.popup, i, v.error)
  ELSE log([v.popup EXCEPT
              !.sent = Append(@, [action |-> "export", format |-> p.requests[i].format]),
              !.requests[i].at = "send"],
           "sendMessage")

\* handleExport from the answer of chrome.tabs.sendMessage on
handleExportAfterSend(p, i, response) ==
  IF response = "noReceiver" THEN catchExport(p, i, NoReceiverMessage)
  ELSE IF response = "success"
  THEN resetButtonState(
         [showStatus(p, "Export started! Check the page for progress", "success")
            EXCEPT !.requests = RemoveAt(@, i)])
  ELSE catchExport(p, i, "Failed to start export process")

\* (mutant) handleExportClick that does not look at the state of the button
handleExportClick_noGuard(p) ==
  handleExport(log(p, "preventDefault"), getSelectedFormat(p))

handleExportClick(p) ==
  LET p1 == log(p, "preventDefault") IN
  IF p1.disabled THEN log(p1, "return")
  ELSE handleExport(p1, getSelectedFormat(p1))

handleFormatChange(p) == hideRequirements(hideStatus(p))

\* handleKeyboardShortcuts for a keydown of `key`, on the export button or
\* elsewhere in the popup
handleKeyboardShortcuts(p, key, onButton) ==
  LET p1 == IF onButton /\ key \in {"Enter", " "}
            THEN handleExportClick(log(p, "preventDefault"))
            ELSE p
  IN IF key = "1" THEN handleFormatChange([p1 EXCEPT !.checked = "ris"])
     ELSE IF key = "2" THEN handleFormatChange([p1 EXCEPT !.checked = "bibtex"])
     ELSE p1

\* performInitialValidation up to its await: the call waits for the answer
\* of chrome.tabs.query
performInitialValidation(p, from) == [p EXCEPT !.validations = Append(@, from)]

\* initializePopup from the end of its await on: the button takes the focus
initializePopupAfterValidation(p) == IF p.cached THEN log(p, "focus") ELSE p

\* performInitialValidation from the answer of chrome.tabs.query on, for the
\* waiting call i: validateCurrentTab, whose error is caught and only
\* written to the console; the call of initializePopup then goes on
performInitialValidationAfterQuery(p, i, tab) ==
  LET v == validateCurrentTab(p, tab)
      p1 == [v.popup EXCEPT !.validations = RemoveAt(@, i)]
      p2 == IF v.error # "" THEN log(p1, "debug") ELSE p1
  IN IF p.validations[i] = "init" THEN initializePopupAfterValidation(p2) ELSE p2

cacheDOMElements(p) == [p EXCEPT !.cached = TRUE]

attachEventListeners(p) == [p EXCEPT !.listening = TRUE]

\* initializePopup up to its await
initializePopup(p) ==
  performInitialValidation(attachEventListeners(cacheDOMElements(p)), "init")

\* the listener of visibilitychange, attached when the script is evaluated
onVisibilityChange(p, visibilityState) ==
  IF visibilityState = "visible" THEN performInitialValidation(p, "visible") ELSE p

\* the popup when its script begins, with the format radio `checked`
NewPopup(checked) ==
  [ disabled |-> FALSE,
    buttonText |-> "export",
    checked |-> checked,
    statusMessage |-> [text |-> "", type |-> "", display |-> FALSE],
    hides |-> 0,
    requirements |-> FALSE,
    requests |-> << >>,
    resets |-> 0,
    sent |-> << >>,
    exports |-> 0,
    cached |-> FALSE,
    listening |-> FALSE,
    validations |-> << >>,
    ev |-> <<"startup">> ]

ReadyStates == {"loading", "interactive", "complete"}

\* the evaluation of the script: initializePopup is called at once, or left
\* to DOMContentLoaded while the document is loading
startup(checked, readyState) ==
  IF readyState = "loading" THEN NewPopup(checked) ELSE initializePopup(NewPopup(checked))

\* -------------------------------------------------------------------- state
VARIABLES
  storage, state, processingTimeout, sleeps, location, navTarget, status,
  overlay, hides, downloads, ev,
  listing,        \* the result listing the browser shows (fixed)
  quota,          \* how many articles fit into the storage slot (fixed)
  starts,         \* export messages sent so far; also the clock of new Date()
  reloads,        \* reloads by the user so far
  origin,         \* how this instance began: via, and the page and the last
                  \* status of the instance before it
  adopted,        \* the run this instance loaded when it began (or null)
  storageBefore,  \* the storage slot before the handler that ran last
  trail,          \* of the active run: the page it started on
  call,           \* a function of the script applied on its own: its name and
                  \* its argument (null while the page runs as a whole)
  result,         \* what that function returned (null before the call)
  popup           \* the popup of the extension: its page and its script
                  \* (null while the popup is not open)

vars == << storage, state, processingTimeout, sleeps, location, navTarget, status,
           overlay, hides, downloads, ev, listing, quota, starts, reloads, origin, adopted, storageBefore,
           trail, call, result, popup >>

\* the variables of the page and of its content script
pageVars == << storage, state, processingTimeout, sleeps, location, navTarget, status,
               overlay, hides, downloads, ev, listing, quota, starts, reloads, origin, adopted,
               storageBefore, trail >>

\* sessionStorage.setItem throws QuotaExceededError when the serialized state
\* is too large: the slot takes nothing, MaxPerPage articles, or any number
Quotas == {0, MaxPerPage, (MaxPage + MaxStarts + MaxReloads + 1) * MaxPerPage}

\* the values an export message carries as format: the two the popup offers
MessageFormats == {"ris", "bibtex"}

Machine ==
  [ storage |-> storage, state |-> state, processingTimeout |-> processingTimeout,
    sleeps |-> sleeps, location |-> location, navTarget |-> navTarget,
    status |-> status, overlay |-> overlay, hides |-> hides,
    downloads |-> downloads, ev |-> ev ]

\* the handler that starts now: its name opens the record of its calls
Enter(name) == [Machine EXCEPT !.ev = <<name>>]

PageBecomes(m) ==
  /\ storage' = m.storage
  /\ state' = m.state
  /\ processingTimeout' = m.processingTimeout
  /\ sleeps' = m.sleeps
  /\ location' = m.location
  /\ navTarget' = m.navTarget
  /\ status' = m.status
  /\ overlay' = m.overlay
  /\ hides' = m.hides
  /\ downloads' = m.downloads
  /\ ev' = m.ev
  /\ storageBefore' = storage

Becomes(m) == PageBecomes(m) /\ UNCHANGED << call, result, popup >>

CurrentPage == listing[getCurrentPage(location)]

Has(events, e) == \E i \in 1..Len(events) : events[i] = e

\* the call that hands a failure to the ProgressUI (handleError)
IsFailure(e) == Len(e) >= 14 /\ SubSeq(e, 1, 14) = "status:failed:"

\* the content script has just been loaded on the first page of the listing
\* with an empty storage slot
Loaded ==
  /\ storage = null
  /\ state = null
  /\ processingTimeout = FALSE
  /\ sleeps = [resume |-> FALSE, nav |-> 0]
  /\ location = 0
  /\ navTarget = 0
  /\ status = ""
  /\ overlay = null
  /\ hides = 0
  /\ downloads = << >>
  /\ ev = <<"init">>
  /\ starts = 0
  /\ reloads = 0
  /\ origin = [via |-> "open", page |-> 0, status |-> ""]
  /\ adopted = null
  /\ storageBefore = null
  /\ trail = [startPage |-> 0]

Init ==
  /\ listing \in Listings
  /\ quota \in Quotas
  /\ Loaded
  /\ call = null
  /\ result = null
  /\ popup = null

\* the popup sends {action: 'export', format}
Message ==
  /\ starts < MaxStarts
  /\ \E format \in MessageFormats :
     \E m \in {onMessage(Enter("message:" \o format), format, CurrentPage,
                          starts + 1, quota)} :
       /\ Becomes(m)
       /\ trail' = IF format = "" THEN trail
                   ELSE [startPage |-> getCurrentPage(location)]
  /\ starts' = starts + 1
  /\ UNCHANGED << listing, quota, reloads, origin, adopted >>

\* sleep(500) of resumeExport is over: the rest of resumeExport
TimerResume ==
  /\ sleeps.resume
  /\ \E m \in {processCurrentPage([Enter("timer:resume") EXCEPT !.sleeps.resume = FALSE],
                                   CurrentPage, quota)} :
       Becomes(m)
  /\ UNCHANGED << listing, quota, starts, reloads, origin, adopted, trail >>

\* sleep(NAV_DELAY) of navigateToNextPage is over.  The resume sleep of the
\* page was armed first and is shorter, so it is over before.
TimerNav ==
  /\ sleeps.nav > 0
  /\ RESUME_DELAY < NAV_DELAY => ~sleeps.resume
  /\ \E m \in {goToNextPage([Enter("timer:nav") EXCEPT !.sleeps.nav = @ - 1])} :
       Becomes(m)
  /\ UNCHANGED << listing, quota, starts, reloads, origin, adopted, trail >>

\* a timer of ProgressUI.hide fires.  The resume sleep of the page was armed
\* first and is shorter, so it is over before.
TimerHide ==
  /\ hides > 0
  /\ RESUME_DELAY < HIDE_DELAY => ~sleeps.resume
  /\ \E m \in {removeOverlay([Enter("timer:hide") EXCEPT !.hides = @ - 1])} :
       Becomes(m)
  /\ UNCHANGED << listing, quota, starts, reloads, origin, adopted, trail >>

\* the watchdog of setProcessingTimeout fires.  It was armed by the last
\* processCurrentPage, no later sleep or timer is longer, so every one is over.
Watchdog ==
  /\ processingTimeout
  /\ ERROR_HIDE_DELAY < PROCESSING_TIMEOUT => hides = 0
  /\ NAV_DELAY < PROCESSING_TIMEOUT => sleeps.nav = 0
  /\ RESUME_DELAY < PROCESSING_TIMEOUT => ~sleeps.resume
  /\ \E m \in {handleError([Enter("timer:watchdog") EXCEPT !.processingTimeout = FALSE],
                            "Export timed out")} :
       Becomes(m)
  /\ UNCHANGED << listing, quota, starts, reloads, origin, adopted, trail >>

\* the navigation started by goToNextPage commits: the page and its content
\* script are gone, the content script of the next page starts
PageLoad ==
  /\ navTarget # 0
  /\ \E m \in {moduleInit(newInstance(Machine, navTarget))} :
       /\ Becomes(m)
       /\ adopted' = m.state
  /\ origin' = [via |-> "nav", page |-> getCurrentPage(location), status |-> status]
  /\ UNCHANGED << listing, quota, starts, reloads, trail >>

\* the user reloads the page: a new content script on the same address
Reload ==
  /\ reloads < MaxReloads
  /\ \E m \in {moduleInit(newInstance(Machine, location))} :
       /\ Becomes(m)
       /\ adopted' = m.state
  /\ origin' = [via |-> "reload", page |-> getCurrentPage(location), status |-> status]
  /\ reloads' = reloads + 1
  /\ UNCHANGED << listing, quota, starts, trail >>

Next ==
  \/ Message
  \/ TimerResume
  \/ TimerNav
  \/ TimerHide
  \/ Watchdog
  \/ PageLoad
  \/ Reload

Spec == Init /\ [][Next]_vars


\* ------------------------------------------------------------------ helpers
IsPrefix(s, t) == Len(s) <= Len(t) /\ SubSeq(t, 1, Len(s)) = s

Elements(seq) == {seq[i] : i \in 1..Len(seq)}

Last(seq) == seq[Len(seq)]

\* the articles of the pages from..to of the listing, in page order
RECURSIVE Harvest(_, _)
Harvest(from, to) ==
  IF from > to THEN << >>
  ELSE Harvest(from, to - 1) \o PageArticles(to, listing[to].n)

\* the handler that ran last
Handler == ev[1]

\* the places where sep occurs in s, and the pieces of s between them
Occurrences(s, sep) ==
  {i \in 1..(Len(s) - Len(sep) + 1) : SubSeq(s, i, i + Len(sep) - 1) = sep}

SplitOn(s, sep) ==
  LET P == Occurrences(s, sep)
      at(k) == CHOOSE p \in P : Cardinality({q \in P : q < p}) = k - 1
  IN [k \in 1..(Cardinality(P) + 1) |->
        SubSeq(s, IF k = 1 THEN 1 ELSE at(k - 1) + Len(sep),
                  IF k = Cardinality(P) + 1 THEN Len(s) ELSE at(k) - 1)]

StartsWith(s, prefix) == Len(prefix) <= Len(s) /\ SubSeq(s, 1, Len(prefix)) = prefix

EndsWith(s, suffix) ==
  Len(suffix) <= Len(s) /\ SubSeq(s, Len(s) - Len(suffix) + 1, Len(s)) = suffix

\* ----------------------------------------------------------------------- C1
\* C1: replaying Resume with an unchanged checkpoint on a page that is
\* already in processedPages appends nothing: the rest of resumeExport leaves
\* the articles and the processed pages of the run as the checkpoint has them.
C1_ResumeIdempotent ==
  [][ ( /\ ev'[1] = "timer:resume"
        /\ state # null
        /\ storage # null
        /\ state = load(storage)
        /\ setHas(state.processedPages, getCurrentPage(location)) )
      => ( /\ state'.articles = state.articles
           /\ state'.processedPages = state.processedPages ) ]_vars


\* ----------------------------------------------------------------------- C2
\* C2: a content script started by a navigation from page p finds the saved
\* checkpoint, takes it over as its run and is on page p + 1; the rest of its
\* resumeExport leaves as articles the checkpoint's articles followed by the
\* articles of page p + 1, and as processed pages those of the checkpoint
\* plus p + 1 when page p + 1 has articles.
C2_ResumeNextPage ==
  [][ /\ ( /\ ev'[1] = "init"
           /\ origin'.via = "nav"
           /\ storage # null )
         => ( /\ state' # null
              /\ state'.format = storage.format
              /\ state'.articles = storage.articles
              /\ Elements(state'.processedPages) = Elements(storage.processedPages)
              /\ sleeps'.resume
              /\ getCurrentPage(location') = getCurrentPage(location) + 1 )
      /\ ( /\ ev'[1] = "timer:resume"
           /\ origin.via = "nav"
           /\ adopted # null
           /\ state = adopted )
         => LET page == getCurrentPage(location)
                found == PageArticles(page, listing[page].n) IN
            /\ page = origin.page + 1
            /\ Has(ev', "extract")
            /\ state'.articles = adopted.articles \o found
            /\ Elements(state'.processedPages) =
                 Elements(adopted.processedPages) \cup (IF Len(found) > 0 THEN {page} ELSE {})
    ]_vars

\* a resumed run on page 2 that holds the articles of page 1 and of page 2
C2_Witness ==
  /\ Handler = "timer:resume"
  /\ origin.via = "nav"
  /\ adopted # null
  /\ state.startTime = adopted.startTime
  /\ getCurrentPage(location) = 2
  /\ Len(adopted.articles) > 0
  /\ Len(state.articles) > Len(adopted.articles)
  /\ state.processedPages = <<1, 2>>


\* ----------------------------------------------------------------------- C3
\* the listing of the claim: every page before page L has articles and a next
\* page, page L has no article and reports no next page
EndsEmptyAt(L) ==
  /\ L > 1
  /\ listing[L].n = 0
  /\ ~truthy(hasNextPage(listing[L].sig))
  /\ \A p \in 1..(L - 1) : listing[p].n > 0 /\ truthy(hasNextPage(listing[p].sig))

\* C3: on a listing whose pages before page L have articles and whose page L
\* has none and reports no next page, a run started on page 1 reports no
\* failure, and a file it hands to the download holds, in the run's format,
\* exactly the articles of pages 1..L-1, each once and in page order.  With
\* two pages and one article on page 1 the RIS file has exactly one record
\* block.
C3_EndToEnd ==
  \A L \in Pages :
    (EndsEmptyAt(L) /\ trail.startPage = 1)
    => /\ \A i \in 1..Len(ev) : ~IsFailure(ev[i])
       /\ Has(ev, "download")
          => /\ status = "done"
             /\ Last(downloads).content =
                  IF state.format = "ris" THEN toRIS(Harvest(1, L - 1))
                  ELSE toBibTeX(Harvest(1, L - 1))
             /\ (L = 2 /\ listing[1].n = 1 /\ state.format = "ris")
                => /\ Count(Last(downloads).content, "TY  - JOUR") = 1
                   /\ Count(Last(downloads).content, "TY  - ") = 1
                   /\ Count(Last(downloads).content, "TI  - A Study of X") = 1
                   /\ Count(Last(downloads).content, "ER  - ") = 1

\* ----------------------------------------------------------------------- C4
\* C4: as long as the controller holds the same run (same startTime), from
\* one step to the next and from one content script to the next, the articles
\* of the run keep every earlier article in place (the earlier sequence is a
\* prefix of the later one) and no processed page is lost.
C4_RunOnlyGrows ==
  [][ ( /\ state # null
        /\ state' # null
        /\ state'.startTime = state.startTime )
      => ( /\ IsPrefix(state.articles, state'.articles)
           /\ Elements(state.processedPages) \subseteq Elements(state'.processedPages) ) ]_vars

\* ----------------------------------------------------------------------- C5
\* C5: when goToNextPage is called, the storage slot holds the run the
\* controller holds: its format, all its articles and its processed pages.
C5_CheckpointBeforeNavigation ==
  Has(ev, "navigate")
  => /\ state # null
     /\ storage # null
     /\ storage.format = state.format
     /\ storage.articles = state.articles
     /\ Elements(storage.processedPages) = Elements(state.processedPages)


\* ----------------------------------------------------------------------- C6
IsTerminal(e) == e = "status:done" \/ IsFailure(e)

TerminalStatus == status = "done" \/ IsFailure("status:" \o status)

\* C6: a handler reports at most one terminal status (Done or Failed); when
\* it reports one, StateManager.clear is called exactly once from the
\* extraction (or from the firing of the watchdog) on, nothing is saved after
\* the report, and the slot is empty; the slot stays empty while the last status
\* handed to the ProgressUI is the terminal one, and a content script that starts after it has no
\* checkpoint and no run.
C6_TerminalClearsOnce ==
  LET T == {i \in 1..Len(ev) : IsTerminal(ev[i])}
      from == IF Has(ev, "extract") THEN CHOOSE i \in 1..Len(ev) : ev[i] = "extract" ELSE 1
  IN /\ Cardinality(T) <= 1
     /\ \A i \in T :
          /\ Cardinality({j \in from..Len(ev) : ev[j] = "clear"}) = 1
          /\ \E j \in i..Len(ev) : ev[j] = "clear"
          /\ \A j \in i..Len(ev) : ev[j] # "save"
          /\ storage = null
     /\ TerminalStatus => storage = null
     /\ (Handler = "init" /\ (origin.status = "done" \/ IsFailure("status:" \o origin.status)))
        => (storage = null /\ state = null /\ ~sleeps.resume)

\* a run ended in Done and the checkpoint it had is gone
C6_Witness ==
  /\ Has(ev, "status:done")
  /\ storageBefore # null
  /\ storage = null

\* ----------------------------------------------------------------------- C7
\* C7: the handler of an export message clears the slot before anything else
\* touches it and leaves a run of the chosen format that holds the articles of
\* the current page only (no processed page but the current one); the slot is
\* then empty or holds exactly that run.
C7_StartCleanSlate ==
  (Handler \in {"message:" \o f : f \in MessageFormats \ {""}})
  => LET page == getCurrentPage(location)
         found == PageArticles(page, listing[page].n)
         cleared == CHOOSE i \in 1..Len(ev) : ev[i] = "clear" IN
     /\ Has(ev, "clear")
     /\ \A j \in 1..(cleared - 1) : ev[j] \notin {"save", "save:failed", "extract", "download", "load"}
     /\ state # null
     /\ Handler = "message:" \o state.format
     /\ state.articles = found
     /\ Elements(state.processedPages) = (IF Len(found) > 0 THEN {page} ELSE {})
     /\ state.startTime = starts
     /\ \/ storage = null
        \/ /\ storage.format = state.format
           /\ storage.articles = found
           /\ Elements(storage.processedPages) = Elements(state.processedPages)
           /\ storage.startTime = toISOString(starts)

\* an export started on page 2 over the checkpoint of a run that had
\* harvested page 1
C7_Witness ==
  /\ Handler = "message:bibtex"
  /\ storageBefore # null
  /\ storageBefore.processedPages = <<1>>
  /\ storageBefore.format = "ris"
  /\ getCurrentPage(location) = 2
  /\ Len(state.articles) > 0

\* ----------------------------------------------------------------------- C8
\* C8: a content script that starts loads the slot, which it leaves as it is.
\* If the slot holds a checkpoint, the controller holds that run, shows
\* "resuming" and waits to process the page; the rest of resumeExport then
\* extracts.  If the slot is empty, the controller stays without run and
\* nothing else happens: no timer, no status, no navigation.
C8_LoadAndResumeAtStart ==
  /\ Handler = "init"
     => /\ storage = storageBefore
        /\ adopted = state
        /\ storage # null
           => /\ state # null
              /\ state.format = storage.format
              /\ state.articles = storage.articles
              /\ Elements(state.processedPages) = Elements(storage.processedPages)
              /\ state.totalArticles = storage.totalArticles
              /\ sleeps = [resume |-> TRUE, nav |-> 0]
              /\ status = "resuming"
        /\ storage = null
           => /\ state = null
              /\ sleeps = [resume |-> FALSE, nav |-> 0]
              /\ status = ""
              /\ ~processingTimeout
              /\ navTarget = 0
              /\ \A i \in 1..Len(ev) : ev[i] \in {"init", "load"}
  /\ Handler = "timer:resume" => (state # null /\ Has(ev, "extract"))

\* a content script started by a navigation has taken over the checkpoint
C8_Witness ==
  /\ Handler = "init"
  /\ origin.via = "nav"
  /\ storage # null
  /\ state # null
  /\ sleeps.resume

\* ----------------------------------------------------------------------- C9
\* C9: a page without articles does not end the run: when the controller
\* navigated away from such a page with the run in progress, the content
\* script of the next page holds the run and goes on with it.
C9_ZeroRecordPageContinues ==
  ( /\ Handler = "init"
    /\ origin.via = "nav"
    /\ origin.status = "navigating"
    /\ listing[origin.page].n = 0 )
  => (state # null /\ sleeps.resume)

\* ---------------------------------------------------------------------- C10
\* C10: when the save of a page fails, no failure is reported; the run in
\* memory holds the articles of the page and the page; the slot is as it was
\* before the save; and the decision is the one of a successful save: the
\* controller waits to navigate exactly when shouldContinueToNextPage holds,
\* else it downloads the file of the whole run and ends in Done.
C10_SaveFailureSwallowed ==
  Has(ev, "save:failed")
  => LET page == getCurrentPage(location)
         found == PageArticles(page, listing[page].n)
         failed == CHOOSE i \in 1..Len(ev) : ev[i] = "save:failed"
         before == IF \E j \in 1..failed : ev[j] = "clear" THEN null ELSE storageBefore
         more == truthy(hasNextPage(listing[page].sig)) /\ ~setHas(state.processedPages, page + 1)
     IN /\ \A i \in 1..Len(ev) : ~IsFailure(ev[i])
        /\ Len(found) > 0
        /\ Len(state.articles) >= Len(found)
        /\ SubSeq(state.articles, Len(state.articles) - Len(found) + 1, Len(state.articles)) = found
        /\ setHas(state.processedPages, page)
        /\ more => /\ status = "navigating"
                   /\ sleeps.nav > 0
                   /\ storage = before
        /\ ~more => /\ status = "done"
                    /\ Has(ev, "download")
                    /\ Last(downloads).content = generateExportContent(state)
                    /\ storage = null

\* the save of a resumed page failed: the run in memory is ahead of the
\* checkpoint, which is the one the page started with, and navigation waits
C10_Witness ==
  /\ Has(ev, "save:failed")
  /\ status = "navigating"
  /\ storageBefore # null
  /\ storage = storageBefore
  /\ Len(state.articles) > Len(storage.articles)


\* ---------------------------------------------------------------------- C13
\* C13: the handler of an export message sends its response as its last call
\* and triggers no navigation; a navigation is triggered only by the timer of
\* navigateToNextPage, for a run that a message started before, whose response
\* has therefore been sent.
C13_ResponseBeforeNavigation ==
  /\ (Handler \in {"message:" \o f : f \in MessageFormats})
     => /\ Last(ev) = "respond"
        /\ Cardinality({i \in 1..Len(ev) : ev[i] = "respond"}) = 1
        /\ ~Has(ev, "navigate")
  /\ Has(ev, "navigate")
     => /\ Handler = "timer:nav"
        /\ ~Has(ev, "respond")
        /\ state # null
        /\ state.startTime \in 1..starts

\* the run of the second export message navigates
C13_Witness ==
  /\ Handler = "timer:nav"
  /\ Has(ev, "navigate")
  /\ state.startTime = 2
  /\ starts = 2

\* ---------------------------------------------------------------------- C14
\* what else an export message may carry as format: nothing (""), or a value
\* that is neither "ris" nor "bibtex"
OtherFormats == {"", "xml"}

\* a sender other than the popup sends {action: 'export'} without format or
\* with a format of its own
MessageOther ==
  /\ starts < MaxStarts
  /\ \E format \in OtherFormats :
     \E m \in {onMessage(Enter("message:" \o format), format, CurrentPage,
                          starts + 1, quota)} :
       /\ Becomes(m)
       /\ trail' = IF format = "" THEN trail
                   ELSE [startPage |-> getCurrentPage(location)]
  /\ starts' = starts + 1
  /\ UNCHANGED << listing, quota, reloads, origin, adopted >>

OtherNext ==
  \/ MessageOther
  \/ TimerResume
  \/ TimerNav
  \/ TimerHide
  \/ Watchdog
  \/ PageLoad
  \/ Reload

OtherSpec == Init /\ [][OtherNext]_vars

\* C14: an export message whose format is absent or is neither "ris" nor
\* "bibtex" starts a run of format "ris" and is answered; the file of a run
\* so started is a .ris file written by the RIS converter.
C14_DefaultsToRIS ==
  /\ (Handler \in {"message:" \o f : f \in OtherFormats})
     => /\ state # null
        /\ state.format = "ris"
        /\ state.startTime = starts
        /\ Has(ev, "respond")
  /\ Has(ev, "download")
     => /\ Last(downloads).ext = "ris"
        /\ Last(downloads).content = toRIS(state.articles)

\* ---------------------------------------------------------------------- C21
\* C21: an export message discards what the instance was waiting to do.  The
\* rest of a resumeExport that began before the message (its run is the one
\* the instance adopted, not the one the controller holds now) extracts
\* nothing, appends nothing, saves nothing, downloads nothing and starts no
\* wait for a navigation: it leaves the run, the slot and the files as they
\* are.
C21_StartDiscardsLeftover ==
  [][ ( /\ ev'[1] = "timer:resume"
        /\ state # null
        /\ adopted # null
        /\ state.startTime # adopted.startTime )
      => ( /\ state' = state
           /\ storage' = storage
           /\ downloads' = downloads
           /\ sleeps'.nav = sleeps.nav
           /\ ~Has(ev', "extract") ) ]_vars
\* ---------------------------------------------------------------------- C22
\* C22: the watchdog is not armed once the controller has left the
\* extraction, be it to wait for the navigation or to finish; it does not
\* fire while a navigation is under way or after Done, and so never clears a
\* checkpoint that the content script of the next page is to load.
C22_WatchdogDisarmed ==
  /\ status \in {"navigating", "done"} => ~processingTimeout
  /\ Handler = "timer:watchdog"
     => /\ navTarget = 0
        /\ storageBefore = null
\* ---------------------------------------------------------------------- C26
\* C26: once goToNextPage has been called with a checkpoint in the slot, and
\* for as long as the navigation does not commit (the content script stays,
\* no other one starts) and no export message arrives, the checkpoint stays
\* in the slot as it is.
C26_NoRollback ==
  [][ ( /\ navTarget # 0
        /\ storage # null
        /\ ev'[1] \in {"timer:resume", "timer:nav", "timer:watchdog"} )
      => storage' = storage ]_vars
\* ---------------------------------------------------------------------- C23
\* how often a handler made the call e
Times(events, e) == Cardinality({i \in 1..Len(events) : events[i] = e})

\* C23: every extraction is preceded, in its handler, by the arming of the
\* watchdog.  The timers a controller has armed and neither cleared nor seen
\* fire are at most one, and there is one exactly when processingTimeout is
\* set.  When the watchdog fires, the handler reports the failure "Export
\* timed out", leaves the slot empty and hands no file to the download.
C23_WatchdogArmedOnceAndFails ==
  [][ LET before == IF processingTimeout /\ ev'[1] \notin {"init", "timer:watchdog"}
                    THEN 1 ELSE 0
          live == before - Times(ev', "clearTimeout") + Times(ev', "setTimeout")
      IN /\ Has(ev', "extract")
            => \E i, j \in 1..Len(ev') : i < j /\ ev'[i] = "setTimeout" /\ ev'[j] = "extract"
         /\ live = (IF processingTimeout' THEN 1 ELSE 0)
         /\ ev'[1] = "timer:watchdog"
            => /\ processingTimeout
               /\ ~processingTimeout'
               /\ status' = "failed:Export timed out"
               /\ Times(ev', "status:failed:Export timed out") = 1
               /\ storage' = null
               /\ Has(ev', "clear")
               /\ downloads' = downloads
               /\ ~Has(ev', "download")
               /\ ~Has(ev', "navigate") ]_vars

\* the watchdog has fired and has cleared the checkpoint of the run
C23_Witness ==
  /\ Handler = "timer:watchdog"
  /\ status = "failed:Export timed out"
  /\ storageBefore # null
  /\ storage = null
  /\ state # null
\* ---------------------------------------------------------------------- C25
\* the handler that ran last made its decision and did not choose to navigate
Finalized == Has(ev, "status:collected") /\ ~Has(ev, "status:navigating")

\* C25: when processCurrentPage completes the export of a run without
\* articles, the failure "No articles found to export" is reported and no file
\* is handed to the download; when the run has articles, exactly one file is
\* handed over, holding the articles converted for the format of the run
\* under a name with the extension of that format, and Done is reported.
C25_Finalizing ==
  Finalized
  => /\ state # null
     /\ storage = null
     /\ Len(state.articles) = 0
        => /\ status = "failed:No articles found to export"
           /\ ~Has(ev, "download")
           /\ ~Has(ev, "status:generating")
           /\ ~Has(ev, "status:done")
     /\ Len(state.articles) > 0
        => /\ status = "done"
           /\ Times(ev, "download") = 1
           /\ \A i \in 1..Len(ev) : ~IsFailure(ev[i])
           /\ Len(downloads) > 0
           /\ Last(downloads).content =
                (IF state.format = "ris" THEN toRIS(state.articles)
                 ELSE toBibTeX(state.articles))
           /\ Last(downloads).ext = (IF state.format = "ris" THEN "ris" ELSE "bib")

\* an export started on a last page without articles has failed
C25_Witness ==
  /\ Finalized
  /\ Len(state.articles) = 0
  /\ status = "failed:No articles found to export"
  /\ downloads = << >>
\* ---------------------------------------------------------------------- C27
\* The page under fair scheduling: a sleep that is pending ends, an armed
\* watchdog fires unless it is cleared or its page goes away, and a
\* navigation that was started commits.  Messages and reloads are up to the
\* user.
LiveSpec ==
  /\ Init
  /\ [][Next]_vars
  /\ WF_vars(TimerResume)
  /\ WF_vars(TimerNav)
  /\ WF_vars(TimerHide)
  /\ WF_vars(Watchdog)
  /\ WF_vars(PageLoad)

\* C27: every export that a message starts leads to a state in which Done or
\* a failure is reported, unless the user reloads a page.
C27_EveryExportEnds ==
  (Handler \in {"message:" \o f : f \in MessageFormats})
    ~> (TerminalStatus \/ reloads > 0)
\* ---------------------------------------------------------------------- C28
\* C28: once Done or a failure is reported, the timers of the same content
\* script do nothing to the run: they trigger no navigation, leave the
\* articles of the run, the empty slot and the downloaded files as they are,
\* and extract nothing.
C28_TerminalIsFinal ==
  [][ ( /\ TerminalStatus
        /\ ev'[1] \in {"timer:resume", "timer:nav", "timer:watchdog"} )
      => ( /\ ~Has(ev', "navigate")
           /\ ~Has(ev', "extract")
           /\ ~Has(ev', "save")
           /\ ~Has(ev', "download")
           /\ state' = state
           /\ storage' = null
           /\ downloads' = downloads ) ]_vars

\* ---------------------------------------------------------------------- C29
\* C29: no two of the downloaded files belong to the same run (the same
\* export message).
C29_OneDownloadPerStart ==
  \A i, j \in 1..Len(downloads) :
    downloads[i].run = downloads[j].run => i = j
\* ---------------------------------------------------------------------- C30
\* C30: when a file is downloaded, the articles the controller hands to the
\* converter are those of the pages the run went through, from the page it
\* started on to the current one, each page once, in page order and, within
\* a page, in the order of extraction.
C30_DocumentIsHarvest ==
  Has(ev, "download")
  => /\ state.articles = Harvest(trail.startPage, getCurrentPage(location))
     /\ Last(downloads).content = generateExportContent(state)
\* ---------------------------------------------------------------------- C31
\* articles and processed pages of a run or of a checkpoint agree: there are
\* articles exactly when there are processed pages, and every processed
\* page is a page of the listing that has articles, all of which are among
\* the articles
Coherent(articles, pages) ==
  /\ Len(articles) > 0 <=> Len(pages) > 0
  /\ \A k \in 1..Len(pages) :
       /\ pages[k] \in Pages
       /\ listing[pages[k]].n > 0
       /\ \A i \in 1..listing[pages[k]].n : Art(pages[k], i) \in Elements(articles)

\* C31: the run the controller holds and the checkpoint in the slot each
\* have articles exactly when they have processed pages, and each of their
\* processed pages had at least one article, which is among their articles.
C31_RecordsIffVisited ==
  /\ state # null => Coherent(state.articles, state.processedPages)
  /\ storage # null => Coherent(storage.articles, storage.processedPages)

\* a resumed run on a page without articles: the page is not among the
\* processed pages, page 1 and its articles are
C31_Witness ==
  /\ Handler = "timer:resume"
  /\ getCurrentPage(location) = 2
  /\ listing[2].n = 0
  /\ state.processedPages = <<1>>
  /\ Len(state.articles) > 0
  /\ Has(ev, "extract")
\* ---------------------------------------------------------------------- C32
\* C32: a message sets the format of the run to the format it carries.  No
\* other handler, in this content script or in the next one, changes the
\* format, the estimated total or the start time of the run; a checkpoint in
\* the slot carries the three values of the run the controller holds; and a
\* downloaded file has the extension and the content of the format of the run.
C32_RunHeaderFrozen ==
  [][ /\ (ev'[1] \in {"message:" \o f : f \in MessageFormats})
         => (state' # null /\ ev'[1] = "message:" \o state'.format)
      /\ ( /\ state # null
           /\ state' # null
           /\ ev'[1] \notin {"message:" \o f : f \in MessageFormats} )
         => ( /\ state'.format = state.format
              /\ state'.totalArticles = state.totalArticles
              /\ state'.startTime = state.startTime )
      /\ storage' # null
         => ( /\ state' # null
              /\ storage'.format = state'.format
              /\ storage'.totalArticles = state'.totalArticles
              /\ storage'.startTime = toISOString(state'.startTime) )
      /\ Has(ev', "download")
         => ( /\ Last(downloads').ext = (IF state'.format = "ris" THEN "ris" ELSE "bib")
              /\ Last(downloads').content =
                   (IF state'.format = "ris" THEN toRIS(state'.articles)
                    ELSE toBibTeX(state'.articles)) )
    ]_vars

\* a BibTeX export started on page 1 is downloaded on page 2 as a .bib file
\* by a run with the start time and the estimate of the start
C32_Witness ==
  /\ Handler = "timer:resume"
  /\ origin.via = "nav"
  /\ Has(ev, "download")
  /\ state.format = "bibtex"
  /\ state.startTime = 1
  /\ state.totalArticles = getTotalArticlesEstimate(listing[1].sig)
  /\ state.totalArticles # getTotalArticlesEstimate(listing[2].sig)
  /\ Last(downloads).ext = "bib"
\* ------------------------------------------------- functions on their own
\* A second specification applies one function of the script to one argument:
\* `call` names the function and holds the argument, `result` what it gives.
Pending(fn) == call # null /\ call.fn = fn /\ result = null

Called(fn) == call # null /\ call.fn = fn /\ result # null

\* a content script on page 1 whose storage slot holds `slot`
Blank(slot) == [newInstance(Machine, 1) EXCEPT !.storage = slot]

\* ---------------------------------------------------------------------- C11
\* a checkpoint as StateManager.save writes it
SampleRun ==
  [ format |-> "ris",
    articles |-> PageArticles(1, 1),
    processedPages |-> <<1>>,
    totalArticles |-> 30,
    startTime |-> 1 ]

RawSlots ==
  {null, BadText, JsonNull}
  \cup {RawObject(serialize(SampleRun), shape) : shape \in [FieldNames -> FieldKinds]}

StartupCalls == {[fn |-> "startup", on |-> slot] : slot \in RawSlots}

\* the content script starts on a page whose slot holds call.on: what
\* StateManager.load returns, and the script after its initialisation
Startup ==
  /\ Pending("startup")
  /\ result' = [value |-> [ returned |-> load(call.on),
                            after |-> moduleInit(Blank(call.on)) ]]
  /\ UNCHANGED << pageVars, call, popup >>

Malformed(slot) ==
  /\ slot # null
  /\ \/ slot.tag \in {"text", "jsonnull"}
     \/ slot.tag = "object" /\ \E f \in FieldNames : slot.shape[f] # "ok"

\* C11: load returns null for an empty slot; for a slot whose content does not
\* deserialize in some field (format, articles, processedPages, totalArticles,
\* startTime) it returns null and the slot is cleared, so that the starting
\* script holds no run and resumes nothing.
C11_LoadRejectsMalformed ==
  Called("startup")
  => /\ call.on = null => result.value.returned = null
     /\ Malformed(call.on)
        => /\ result.value.returned = null
           /\ result.value.after.storage = null
           /\ result.value.after.state = null
           /\ ~result.value.after.sleeps.resume

\* ---------------------------------------------------------------------- C12
\* the runs a controller may hold
Runs ==
  { [ format |-> f, articles |-> a, processedPages |-> pp, totalArticles |-> t,
      startTime |-> st ] :
      f \in MessageFormats,
      a \in UNION {[1..n -> {Art(1, i) : i \in 1..MaxPerPage}] : n \in 0..MaxPerPage},
      pp \in {q \in UNION {[1..n -> Pages] : n \in 0..MaxPage} :
                \A i, j \in 1..Len(q) : i # j => q[i] # q[j]},
      t \in {0, 30},
      st \in 0..MaxStarts }

\* the runs saved: those, and a run whose start time is an Invalid Date (as
\* load makes it of a slot without startTime)
SaveLoadCalls ==
  { [fn |-> "saveLoad", on |-> [run |-> r, room |-> q]] :
      r \in Runs \cup {[SampleRun EXCEPT !.startTime = InvalidDate]},
      q \in {0, MaxPerPage} }

\* StateManager.save of a run, then StateManager.load
SaveLoad ==
  /\ Pending("saveLoad")
  /\ result' = [value |->
       LET m == save([Blank(null) EXCEPT !.state = call.on.run], call.on.room) IN
       [ saved |-> Has(m.ev, "save"), slot |-> m.storage, loaded |-> load(m.storage) ]]
  /\ UNCHANGED << pageVars, call, popup >>

\* C12: load right after a successful save of a run returns that run: the
\* same format, the same articles in the same order, the same processed
\* pages, the same total and the same start time.
C12_CheckpointRoundTrip ==
  (Called("saveLoad") /\ result.value.saved)
  => LET r == call.on.run
         l == result.value.loaded IN
     /\ l # null
     /\ l.format = r.format
     /\ l.articles = r.articles
     /\ Elements(l.processedPages) = Elements(r.processedPages)
     /\ Len(l.processedPages) = Len(r.processedPages)
     /\ l.totalArticles = r.totalArticles
     /\ l.startTime = r.startTime

\* a run with two articles, two processed pages and a start time other than
\* zero has been saved and loaded
C12_Witness ==
  /\ Called("saveLoad")
  /\ result.value.saved
  /\ Len(call.on.run.articles) = 2
  /\ call.on.run.processedPages = <<2, 1>>
  /\ call.on.run.startTime = 1
  /\ result.value.loaded # null

\* ---------------------------------------------------------------------- C15
\* the numbers a range text shows; beside the range texts, a text without
\* range and without "de n", one with "de 30", and the range text after
\* another "de n" ("Resultados de 2024: 1-10 de 30")
RangeNumbers == {10 * n : n \in 1..(MaxPage + 1)}

PageSignals ==
  { [nextButton |-> b, pageInfo |-> i] :
      b \in BOOLEAN,
      i \in {NoInfo, OtherInfo, Text(De(30)), [Range(1, 10, 30) EXCEPT !.de = De(2024)]}
            \cup {Range(a, z, t) : a \in RangeNumbers, z \in RangeNumbers, t \in RangeNumbers} }

HasNextPageCalls == {[fn |-> "hasNextPage", on |-> sig] : sig \in PageSignals}

HasNextPage ==
  /\ Pending("hasNextPage")
  /\ result' = [value |-> hasNextPage(call.on)]
  /\ UNCHANGED << pageVars, call, popup >>

\* C15: hasNextPage is true whenever an enabled next button is present,
\* whatever the range text says; without one it is true when a range text
\* "A-B de T" is present with B < T, and false otherwise.
C15_ButtonWins ==
  Called("hasNextPage")
  => LET sig == call.on IN
     /\ sig.nextButton => result.value = boolean(TRUE)
     /\ ~sig.nextButton
        => result.value
           = boolean(sig.pageInfo.kind = "range" /\ sig.pageInfo.to < sig.pageInfo.total)

\* ---------------------------------------------------------------------- C16
\* what a run holds besides its format and its articles
Contexts ==
  { [processedPages |-> << >>, totalArticles |-> 0, startTime |-> 0],
    [processedPages |-> <<MaxPage>>, totalArticles |-> 30, startTime |-> MaxStarts] }

\* the run with the format and the articles of run r in another context
Recontext(r, c) ==
  [ format |-> r.format, articles |-> r.articles, processedPages |-> c.processedPages,
    totalArticles |-> c.totalArticles, startTime |-> c.startTime ]

ConvertCalls ==
  {[fn |-> "convert", on |-> [run |-> r, other |-> c]] : r \in Runs, c \in Contexts}

\* completeExport in two controllers: one holds the run call.on.run with its
\* checkpoint saved, the other holds the same format and articles in another
\* context, on another page and with an empty slot
Convert ==
  /\ Pending("convert")
  /\ result' = [value |->
       LET r1 == call.on.run
           r2 == Recontext(r1, call.on.other) IN
       [ first |-> completeExport([Blank(serialize(r1)) EXCEPT !.state = r1]),
         second |-> completeExport([newInstance(Machine, MaxPage) EXCEPT !.state = r2]),
         given |-> r2 ]]
  /\ UNCHANGED << pageVars, call, popup >>

\* C16: the document is a function of the articles and the format alone: two
\* controllers that hold the same articles and format, whatever else they
\* hold, write files of the same content, which is toRIS or toBibTeX of the
\* articles; the conversion leaves each run as it was.
C16_ConversionDeterministic ==
  Called("convert")
  => LET r == call.on.run
         v == result.value
         doc == IF r.format = "ris" THEN toRIS(r.articles) ELSE toBibTeX(r.articles) IN
     /\ v.first.state = r
     /\ v.second.state = v.given
     /\ Len(v.first.downloads) = Len(v.second.downloads)
     /\ Len(r.articles) > 0
        => /\ Len(v.first.downloads) = 1
           /\ v.first.downloads[1].content = v.second.downloads[1].content
           /\ v.first.downloads[1].ext = v.second.downloads[1].ext
           /\ v.first.downloads[1].content = doc

\* two controllers that differ in processed pages, total and start time have
\* written the BibTeX file of the same two articles
C16_Witness ==
  /\ Called("convert")
  /\ call.on.run.format = "bibtex"
  /\ Len(call.on.run.articles) = 2
  /\ result.value.first.state.startTime # result.value.second.state.startTime
  /\ result.value.first.state.processedPages # result.value.second.state.processedPages
  /\ Len(result.value.first.downloads) = 1
  /\ Len(result.value.second.downloads) = 1

\* ---------------------------------------------------------------------- C17
\* the seven characters escapeBibTeX escapes
EscapedChars == {"\\", "{", "}", "$", "&", "%", "#"}

\* the texts of length n over an alphabet
RECURSIVE TextsOf(_, _)
TextsOf(alphabet, n) ==
  IF n = 0 THEN {""}
  ELSE {s \o c : s \in TextsOf(alphabet, n - 1), c \in alphabet}

EscapeTexts == UNION {TextsOf(EscapedChars \cup {"a"}, n) : n \in 0..MaxEscLen}

EscapeCalls == {[fn |-> "escapeBibTeX", on |-> text] : text \in EscapeTexts}

EscapeBibTeX ==
  /\ Pending("escapeBibTeX")
  /\ result' = [value |-> escapeBibTeX(call.on)]
  /\ UNCHANGED << pageVars, call, popup >>

\* the text with one backslash put before each of the seven characters
RECURSIVE EscapedOnce(_)
EscapedOnce(text) ==
  IF text = "" THEN ""
  ELSE (IF Head(text) \in EscapedChars THEN "\\" ELSE "") \o Head(text)
       \o EscapedOnce(Tail(text))

\* C17: escapeBibTeX returns a text without any of the seven characters
\* \ { } $ & % # unchanged, and any text with exactly one backslash added
\* before each occurrence of one of the seven.
C17_EscapesExactlyOnce ==
  Called("escapeBibTeX")
  => LET text == call.on
         special == {i \in 1..Len(text) : CharAt(text, i) \in EscapedChars} IN
     /\ special = {} => result.value = text
     /\ result.value = EscapedOnce(text)
     /\ Len(result.value) = Len(text) + Cardinality(special)

\* a backslash followed by a brace: each is escaped once
C17_Witness ==
  /\ Called("escapeBibTeX")
  /\ call.on = "a\\{"
  /\ result.value = "a\\\\\\{"

\* ---------------------------------------------------------------------- C18
YearTexts == UNION {TextsOf({"2", "0", "n", "d", "."}, n) : n \in 0..MaxYearLen}

YearCalls == {[fn |-> "year", on |-> text] : text \in YearTexts}

\* the article of the example with another text as its year
Dated(text) == [Art(1, 1) EXCEPT !.year = text]

\* both converters and the citation key on an article whose year is call.on
ConvertYear ==
  /\ Pending("year")
  /\ result' = [value |-> [ ris |-> articleToRIS(Dated(call.on)),
                            bib |-> articleToBibTeX(Dated(call.on)),
                            key |-> generateCitationKey(Dated(call.on)) ]]
  /\ UNCHANGED << pageVars, call, popup >>

\* C18: for a year text without a run of four digits the RIS block has no PY
\* line, the BibTeX entry has no year field and its citation key ends in
\* "unknown"; for a text with such a run both have exactly one year line,
\* with the first four digits in a row, and the key ends in them.
C18_YearOnlyIfFourDigits ==
  Called("year")
  => LET text == call.on
         runs == {i \in 1..(Len(text) - 3) : \A k \in 0..3 : CharAt(text, i + k) \in Digits}
         first == CHOOSE i \in runs : \A j \in runs : i <= j
         ris == SplitOn(result.value.ris, CRLF)
         bib == SplitOn(result.value.bib, LF)
         py == {i \in 1..Len(ris) : StartsWith(ris[i], "PY  - ")}
         yr == {i \in 1..Len(bib) : StartsWith(bib[i], "  year = ")}
     IN /\ bib[1] = "@article{" \o result.value.key \o ","
        /\ runs = {}
           => /\ py = {}
              /\ yr = {}
              /\ EndsWith(result.value.key, "unknown")
        /\ runs # {}
           => LET year == SubSeq(text, first, first + 3) IN
              /\ Cardinality(py) = 1
              /\ \A i \in py : ris[i] = "PY  - " \o year
              /\ Cardinality(yr) = 1
              /\ \A i \in yr : bib[i] = "  year = {" \o year \o "},"
              /\ EndsWith(result.value.key, year)

\* the year "n.d."
C18_Witness ==
  /\ Called("year")
  /\ call.on = "n.d."
  /\ result.value.key = "studyunknown"

\* ---------------------------------------------------------------------- C19
\* an article with nothing but an unknown type, and one without title
Bare ==
  [ id |-> "", title |-> "", authors |-> << >>, journal |-> "", year |-> "",
    documentType |-> "Tese", isOpenAccess |-> FALSE, isPeerReviewed |-> FALSE ]

Untitled == [Art(1, 1) EXCEPT !.title = ""]

\* an article whose type names a property of Object.prototype and whose
\* title holds a form feed, U+00C4, U+00A0, U+0130 and U+212A: its citation
\* key is made of "istanbul" and "kelvin"
Inherited ==
  [Art(1, 1) EXCEPT !.documentType = "constructor",
                    !.title = "ab\fcdÃÂ Ä°stanbul âªelvin"]

RecordPool == {Art(1, i) : i \in 1..3} \cup {Bare, Untitled, Inherited}

RecordsCalls ==
  {[fn |-> "records", on |-> a] : a \in UNION {[1..n -> RecordPool] : n \in 0..MaxRecords}}

\* both converters on the sequence of articles call.on
ConvertRecords ==
  /\ Pending("records")
  /\ result' = [value |-> [ris |-> toRIS(call.on), bib |-> toBibTeX(call.on)]]
  /\ UNCHANGED << pageVars, call, popup >>

\* the parts of a document: it without its last character, split at blank lines
Parts(doc) ==
  IF Len(doc) <= 1 THEN << >> ELSE SplitOn(SubSeq(doc, 1, Len(doc) - 1), LF \o LF)

\* the place of a RIS tag in the order TY, TI, AU, PY, T2, JF, N1, ER
RisTags == <<"TY  - ", "TI  - ", "AU  - ", "PY  - ", "T2  - ", "JF  - ", "N1  - ", "ER  - ">>

RisRank(line) ==
  IF \E k \in 1..8 : StartsWith(line, RisTags[k])
  THEN CHOOSE k \in 1..8 : StartsWith(line, RisTags[k])
  ELSE 0

\* C19: the RIS document of a non-empty sequence of articles ends with exactly
\* one newline; without it, split at blank lines, it has one block per article
\* in the order of the articles; the lines of a block, joined by CRLF, begin
\* with the TY line, end with the line "ER  - " and carry the tags in the order
\* TY, TI, AU (one per author, in the authors' order), PY, T2, JF, N1, ER.
C19_RisBlocks ==
  (Called("records") /\ Len(call.on) > 0)
  => LET doc == result.value.ris
         blocks == Parts(doc) IN
     /\ EndsWith(doc, LF)
     /\ ~EndsWith(doc, LF \o LF)
     /\ Len(blocks) = Len(call.on)
     /\ \A b \in 1..Len(blocks) :
          LET article == call.on[b]
              lines == SplitOn(blocks[b], CRLF)
              au == {i \in 1..Len(lines) : RisRank(lines[i]) = 3}
              first == IF article.title = "" THEN 2 ELSE 3 IN
          /\ \A i \in 1..Len(lines) :
               /\ RisRank(lines[i]) > 0
               /\ Occurrences(lines[i], LF) = {}
               /\ Occurrences(lines[i], CR) = {}
          /\ RisRank(lines[1]) = 1
          /\ lines[Len(lines)] = "ER  - "
          /\ \A i \in 1..(Len(lines) - 1) :
               \/ RisRank(lines[i]) < RisRank(lines[i + 1])
               \/ RisRank(lines[i]) = 3 /\ RisRank(lines[i + 1]) = 3
          /\ (article.title # "") <=> (lines[2] = "TI  - " \o article.title)
          /\ (article.title = "") => RisRank(lines[2]) # 2
          /\ au = first..(first + Len(article.authors) - 1)
          /\ \A i \in au : lines[i] = "AU  - " \o article.authors[i - first + 1]

\* a document of two blocks: an article with two authors, then a bare one
C19_Witness ==
  /\ Called("records")
  /\ call.on = <<Art(1, 3), Bare>>
  /\ Len(Parts(result.value.ris)) = 2
  /\ Parts(result.value.ris)[2] = "TY  - JOUR" \o CRLF \o "ER  - "

\* ---------------------------------------------------------------------- C20
HasTitle(article) == article.title # ""

\* C20: the BibTeX document has one entry for each article with a title, in
\* the order of the articles, and none for an article without title; the RIS
\* document has one block for every article.
C20_UntitledOnlyInRis ==
  Called("records")
  => LET titled == SelectSeq(call.on, HasTitle)
         entries == Parts(result.value.bib)
         blocks == Parts(result.value.ris) IN
     /\ Len(entries) = Len(titled)
     /\ \A e \in 1..Len(entries) :
          LET lines == SplitOn(entries[e], LF) IN
          /\ StartsWith(lines[1], "@")
          /\ lines[2] = "  title = {" \o EscapedOnce(titled[e].title) \o "},"
          /\ lines[Len(lines)] = "}"
     /\ Len(blocks) = Len(call.on)
     /\ \A b \in 1..Len(blocks) :
          /\ StartsWith(blocks[b], "TY  - ")
          /\ HasTitle(call.on[b])
             <=> Occurrences(blocks[b], CRLF \o "TI  - " \o call.on[b].title \o CRLF) # {}

\* an article without title before one with a title: one entry, two blocks
C20_Witness ==
  /\ Called("records")
  /\ call.on = <<Untitled, Art(1, 2)>>
  /\ Len(Parts(result.value.bib)) = 1
  /\ Len(Parts(result.value.ris)) = 2

\* ---------------------------------------------------------------------- C24
\* the sets of processed pages a run may hold, the page after the last one
\* of the listing included
VisitedSets ==
  {q \in UNION {[1..n -> 1..(MaxPage + 1)] : n \in 0..(MaxPage + 1)} :
     \A i, j \in 1..Len(q) : i # j => q[i] # q[j]}

\* the pagination signals that matter to the decision
DecisionSignals ==
  { [nextButton |-> b, pageInfo |-> i] :
      b \in BOOLEAN, i \in {NoInfo, Text(De(30)), Range(1, 10, 30), Range(21, 30, 30)} }

DecideCalls ==
  { [fn |-> "decide",
     on |-> [visited |-> q, location |-> p, n |-> n, sig |-> s]] :
      q \in VisitedSets, p \in Pages, n \in 0..1, s \in DecisionSignals }

\* processCurrentPage of a run that has the processed pages `visited`, on the
\* page `location` with n articles and the signals sig, up to its return or
\* to the await of navigateToNextPage: the page is left as the call leaves
\* it, and the result keeps the controller as it is then.  The wait of
\* navigateToNextPage ends in a later step, TimerNav.
Decide ==
  /\ Pending("decide")
  /\ \E m \in {processCurrentPage(
                 [Blank(null) EXCEPT !.state = [SampleRun EXCEPT !.processedPages = call.on.visited],
                                     !.location = call.on.location,
                                     !.ev = <<"decide">>],
                 [n |-> call.on.n, sig |-> call.on.sig],
                 Len(SampleRun.articles) + call.on.n)} :
       /\ PageBecomes(m)
       /\ result' = [value |-> m]
  /\ UNCHANGED << listing, quota, starts, reloads, origin, adopted, trail, call, popup >>

\* C24: after the extraction of page p the controller waits to navigate to
\* page p + 1 exactly when hasNextPage holds and p + 1 is not among the
\* processed pages of the run; in every other case it completes the export
\* (Done, or Failed for want of articles) and never navigates.  The page it
\* navigates to when the wait is over is never one of the processed pages.
C24_DecisionAfterExtraction ==
  Called("decide")
  => LET p == call.on.location
         after == result.value
         visited == Elements(after.state.processedPages)
         navigating == /\ after.status = "navigating"
                       /\ after.sleeps.nav = 1
                       /\ ~Has(after.ev, "download")
                       /\ ~Has(after.ev, "clear")
         finalizing == /\ after.status \in {"done", "failed:No articles found to export"}
                       /\ Has(after.ev, "clear")
                       /\ after.sleeps.nav = 0
     IN /\ Has(after.ev, "extract")
        /\ visited = Elements(call.on.visited) \cup (IF call.on.n > 0 THEN {p} ELSE {})
        /\ navigating <=> (truthy(hasNextPage(call.on.sig)) /\ (p + 1) \notin visited)
        /\ ~navigating <=> finalizing
        /\ navigating /\ Handler = "timer:nav" => navTarget = p + 1
        /\ navTarget # 0 => navigating /\ navTarget \notin visited

\* the page reports a next page, but the run has processed that page already:
\* the export is completed
C24_Witness ==
  /\ Called("decide")
  /\ call.on.location = 1
  /\ call.on.visited = <<2, 1>>
  /\ truthy(hasNextPage(call.on.sig))
  /\ result.value.status = "done"
  /\ sleeps.nav = 0
  /\ navTarget = 0
\* ------------------------------------------------------ the second spec
Calls == StartupCalls \cup SaveLoadCalls \cup HasNextPageCalls \cup ConvertCalls
  \cup EscapeCalls \cup YearCalls \cup RecordsCalls \cup DecideCalls

FnInit ==
  /\ listing = [p \in Pages |-> [n |-> 0, sig |-> Signals(p)]]
  /\ quota = 0
  /\ Loaded
  /\ call \in Calls
  /\ result = null
  /\ popup = null

FnNext ==
  \/ Startup
  \/ SaveLoad
  \/ HasNextPage
  \/ Convert
  \/ EscapeBibTeX
  \/ ConvertYear
  \/ ConvertRecords
  \/ Decide
  \/ TimerNav

FnSpec == FnInit /\ [][FnNext]_vars


\* ------------------------------------------------------- the popup's spec
\* A third specification runs the popup on its own: the user clicks, presses
\* keys and picks a format, chrome.tabs answers, the timers fire.  The user
\* acts on the page once initializePopup has attached the listeners; the
\* listener of visibilitychange is there from the evaluation of the script.
PopupEnter(name) == [popup EXCEPT !.ev = <<name>>]

\* the keys of a keydown: those handleKeyboardShortcuts names, and another
Keys == {"Enter", " ", "1", "2", "a"}

PopupInit ==
  /\ listing = [p \in Pages |-> [n |-> 0, sig |-> Signals(p)]]
  /\ quota = 0
  /\ Loaded
  /\ call = null
  /\ result = null
  /\ popup \in {startup(c, r) : c \in {"", "ris", "bibtex"}, r \in ReadyStates}

\* the document has been parsed: the listener of DOMContentLoaded
DOMContentLoaded ==
  /\ ~popup.cached
  /\ popup' = initializePopup(PopupEnter("DOMContentLoaded"))
  /\ UNCHANGED << pageVars, call, result >>

\* a click event on the export button
Click ==
  /\ popup.listening
  /\ popup.exports < MaxExports
  /\ popup' = handleExportClick(PopupEnter("click"))
  /\ UNCHANGED << pageVars, call, result >>

\* a keydown event in the popup
KeyDown ==
  /\ popup.listening
  /\ popup.exports < MaxExports
  /\ \E key \in Keys, onButton \in BOOLEAN :
       popup' = handleKeyboardShortcuts(PopupEnter("keydown"), key, onButton)
  /\ UNCHANGED << pageVars, call, result >>

\* the user checks a format radio: its change event
FormatChange ==
  /\ popup.listening
  /\ \E f \in MessageFormats :
       popup' = handleFormatChange([PopupEnter("change") EXCEPT !.checked = f])
  /\ UNCHANGED << pageVars, call, result >>

\* a format radio takes the focus: the focusin listener
FocusRadio ==
  /\ popup.listening
  /\ popup' = hideStatus(PopupEnter("focusin"))
  /\ UNCHANGED << pageVars, call, result >>

\* the visibility of the popup changes
VisibilityChange ==
  /\ \E visibilityState \in {"visible", "hidden"} :
       /\ visibilityState = "visible" => Len(popup.validations) < MaxValidations
       /\ popup' = onVisibilityChange(PopupEnter("visibilitychange"), visibilityState)
  /\ UNCHANGED << pageVars, call, result >>

\* chrome.tabs.query answers a waiting performInitialValidation
ValidationDone ==
  /\ \E i \in 1..Len(popup.validations), tab \in TabKinds :
       popup' = performInitialValidationAfterQuery(PopupEnter("validation"), i, tab)
  /\ UNCHANGED << pageVars, call, result >>

\* chrome.tabs.query answers a waiting handleExport
QueryDone ==
  /\ \E i \in 1..Len(popup.requests), tab \in TabKinds :
       /\ popup.requests[i].at = "query"
       /\ popup' = handleExportAfterQuery(PopupEnter("query"), i, tab)
  /\ UNCHANGED << pageVars, call, result >>

\* chrome.tabs.sendMessage settles for a waiting handleExport
SendDone ==
  /\ \E i \in 1..Len(popup.requests), response \in Responses :
       /\ popup.requests[i].at = "send"
       /\ popup' = handleExportAfterSend(PopupEnter("answer"), i, response)
  /\ UNCHANGED << pageVars, call, result >>

\* a timer of resetButtonState fires
ResetTimer ==
  /\ popup.resets > 0
  /\ popup' = setButtonLoading([PopupEnter("timer:reset") EXCEPT !.resets = @ - 1], FALSE)
  /\ UNCHANGED << pageVars, call, result >>

\* a timer of showStatus fires
HideTimer ==
  /\ popup.hides > 0
  /\ popup' = hideStatus([PopupEnter("timer:hide") EXCEPT !.hides = @ - 1])
  /\ UNCHANGED << pageVars, call, result >>

PopupNext ==
  \/ DOMContentLoaded
  \/ Click
  \/ KeyDown
  \/ FormatChange
  \/ FocusRadio
  \/ VisibilityChange
  \/ ValidationDone
  \/ QueryDone
  \/ SendDone
  \/ ResetTimer
  \/ HideTimer

PopupSpec == PopupInit /\ [][PopupNext]_vars

\* ---------------------------------------------------------------------- C33
\* C33: while the export button is disabled, a click or a keydown sends no
\* message and begins no export.  At most one export waits at any time, and
\* the button is disabled while one waits and while a timer of
\* resetButtonState is pending: only that timer, fired after the export has
\* settled, enables the button again.
C33_OneExportAtATime ==
  [][ /\ (popup.disabled /\ popup'.ev[1] \in {"click", "keydown"})
         => ( /\ popup'.sent = popup.sent
              /\ popup'.requests = popup.requests
              /\ popup'.exports = popup.exports
              /\ popup'.disabled )
      /\ Len(popup'.requests) <= 1
      /\ ~popup'.disabled => (popup'.requests = << >> /\ popup'.resets = 0)
      /\ (popup.disabled /\ ~popup'.disabled)
         => (popup'.ev[1] = "timer:reset" /\ popup.requests = << >>)
      /\ Len(popup'.sent) > Len(popup.sent)
         => (popup'.ev[1] = "query" /\ Len(popup.requests) = 1)
    ]_vars

\* Enter is pressed on the export button while the message of the first
\* export waits for its answer: handleExportClick returns
C33_Witness ==
  /\ popup.ev = <<"keydown", "preventDefault", "preventDefault", "return">>
  /\ popup.disabled
  /\ Len(popup.requests) = 1
  /\ popup.requests[1].at = "send"
  /\ Len(popup.sent) = 1

====
